---- MODULE Spec2Model ----
(***************************************************************************)
(* Model of the mcp-omnisearch orchestration core: provider health         *)
(* manager (circuit breaker + cooldowns), provider configuration,          *)
(* performance tracker, query-analyzer scoring and the search             *)
(* orchestrator's unified_search / unified_ai_search.                      *)
(*                                                                         *)
(* Time.  Date.now() is the variable `now`, counted in ticks of 30         *)
(* minutes; every duration of the health manager is a whole number of      *)
(* ticks.  Durations measured inside one unified call (response times)     *)
(* are counted in units of 10 seconds in the call's own `elapsed` field.   *)
(* Scores that the code computes in floating point are exact rationals     *)
(* here.                                                                   *)
(***************************************************************************)
EXTENDS Integers, Sequences, FiniteSets, TLC

\* ------------------------------------------------------------------ bounds
MaxTime == 2
MaxThreshold == 2
MaxBreakerTimeout == 1
MaxFailures == 3
MaxResetAhead == 1
MaxCalls == 2
MaxAttempts == 3
MaxResults == 1
MaxProviders == 2
MaxNotes == 2
MaxSaveTime == 8
MaxRecordCalls == 101
MaxUpdates == 2

\* ------------------------------------------------------- program constants
\* 30 * 60 * 1000 ms = 1 tick
FAILURE_RESET_TIME == 1
\* 60 * 60 * 1000 ms = 2 ticks
RATE_LIMIT_DEFAULT == 2
\* 24 * 60 * 60 * 1000 ms = 48 ticks
CREDIT_COOLDOWN == 48

NoTime == -1

search_providers == <<"tavily", "kagi", "brave">>
ai_providers == <<"perplexity", "kagi_fastgpt">>

RECURSIVE SeqToSet(_)
SeqToSet(s) == IF s = <<>> THEN {} ELSE {Head(s)} \cup SeqToSet(Tail(s))

Providers == SeqToSet(search_providers) \cup SeqToSet(ai_providers)

\* ErrorType values that record_failure and attempt_search distinguish.
ErrorTypes ==
    {"RATE_LIMIT", "CREDIT_EXHAUSTED", "QUOTA_EXCEEDED", "AUTHENTICATION_ERROR",
     "API_ERROR", "PROVIDER_ERROR", "INVALID_INPUT"}

\* What error.message.includes(...) can tell about a message.
MessageClasses == {"quota", "invalid_key", "unauthorized", "other"}

MsgHasCredit(m) == m = "quota"
MsgHasAuth(m) == m \in {"invalid_key", "unauthorized"}

VARIABLES
    now,                        \* Date.now()
    health,                     \* ProviderHealthManager.health_status
    circuit_breaker_threshold,  \* config.circuit_breaker_threshold
    circuit_breaker_timeout,    \* config.circuit_breaker_timeout_ms, in ticks
    fallback_enabled,           \* config.fallback_enabled
    enabled,                    \* config.providers[p].enabled
    priority,                   \* config.providers[p].priority
    history,                    \* PerformanceTracker.performance_history
    stats,                      \* PerformanceTracker.provider_stats
    pc,                         \* where the unified call in progress stands
    call,                       \* locals of the unified call in progress
    result,                     \* what the last unified call returned
    ncalls,                     \* unified calls started so far
    nattempts,                  \* provider attempts made so far
    ev,                         \* observation: the last health-manager call
    trk,                        \* observation: notifications seen per provider
    a_pc,                       \* attempt_search: where the call stands
    a_order,                    \* attempt_search: providers_to_try
    a_prov,                     \* attempt_search: index of the provider tried
    a_try,                      \* attempt_search: attempt (0..max_retries)
    a_pending,                  \* the awaited provider.search() is unsettled
    a_abandoned,                \* provider.search() calls left behind, unsettled
    a_failed,                   \* fallback_attempts of the call
    a_cancelled,                \* the caller has asked to cancel
    a_result,                   \* how the call returned
    a_log,                      \* attempt_search for the current provider
    a_timers,                   \* armed 30 s timers created by the call
    c_pc,                       \* concurrent calls: where each call stands
    c_note,                     \* the notification each call is delivering
    c_read,                     \* the record its handler has read
    c_left,                     \* notifications each call still delivers
    c_running,                  \* the call whose callback holds the thread
    c_lin,                      \* the notifications applied one after another
    s_now,                      \* StateManager: Date.now(), in units of 2.5 s
    s_last_save,                \* StateManager.last_save
    s_pending,                  \* StateManager.pending_save (its due time)
    s_timers,                   \* due times of the armed setTimeout timers
    s_last_write,               \* time of the last writeFileSync that succeeded
    s_prev_write,               \* time of the one before
    s_ev,                       \* observation: the last save_state call
    sn_state,                   \* snapshot: the in-memory state handed over
    sn_file,                    \* snapshot: the parsed content of the file
    sn_loaded,                  \* snapshot: what load_state returned
    on_demand,                  \* environment.optimize_for_cold_start
    cf_mode,                    \* ProviderConfigManager: this.config.mode
    cf_default,                 \* the object DEFAULT_SEARCH_CONFIG
    cf_shared,                  \* this.config is the object DEFAULT_SEARCH_CONFIG
    cf_file,                    \* what state_manager.load_state() returns
    cf_handed,                  \* configuration_overrides last given to save_state
    cf_ev,                      \* observation: the last configuration call
    qa_out,                     \* the last reply of the analyze_query tool
    p_mem,                      \* updates each subsystem holds in memory
    p_file,                     \* updates of each subsystem in the snapshot file
    p_timer,                    \* the state the armed save timer will write
    d_calls,                    \* the unified calls in flight side by side
    st_run                      \* provider_stats as the running updates leave them

vars == <<now, health, circuit_breaker_threshold, circuit_breaker_timeout,
          fallback_enabled, enabled, priority, history, stats, pc, call,
          result, ncalls, nattempts, ev, trk,
          a_pc, a_order, a_prov, a_try, a_pending, a_abandoned, a_failed,
          a_cancelled, a_result, a_log, a_timers,
          c_pc, c_note, c_read, c_left, c_running, c_lin,
          s_now, s_last_save, s_pending, s_timers, s_last_write, s_prev_write,
          s_ev, sn_state, sn_file, sn_loaded, on_demand,
          cf_mode, cf_default, cf_shared, cf_file, cf_handed, cf_ev,
          qa_out, p_mem, p_file, p_timer, d_calls, st_run>>

orchvars == <<history, stats, pc, call, result, ncalls, nattempts>>

cfgvars == <<circuit_breaker_threshold, circuit_breaker_timeout,
             fallback_enabled, enabled, priority>>

corevars == <<now, health, cfgvars, orchvars, ev, trk>>

attvars == <<a_pc, a_order, a_prov, a_try, a_pending, a_abandoned, a_failed,
             a_cancelled, a_result, a_log, a_timers>>

concvars == <<c_pc, c_note, c_read, c_left, c_running, c_lin>>

\* State of the components a specification does not exercise.
savevars == <<s_now, s_last_save, s_pending, s_timers, s_last_write,
              s_prev_write, s_ev>>

snapvars == <<sn_state, sn_file, sn_loaded>>

envvars == <<on_demand>>

confvars == <<cf_mode, cf_default, cf_shared, cf_file, cf_handed, cf_ev>>

qavars == <<qa_out>>

persvars == <<p_mem, p_file, p_timer>>

dispvars == <<d_calls>>

runvars == <<st_run>>

auxvars == <<attvars, concvars, savevars, snapvars, envvars, confvars, qavars,
             persvars, dispvars, runvars>>

beside_att == <<concvars, savevars, snapvars, envvars, confvars,
               qavars, persvars, dispvars, runvars>>

beside_conc == <<attvars, savevars, snapvars, envvars, confvars,
               qavars, persvars, dispvars, runvars>>

beside_save == <<attvars, concvars, snapvars, envvars, confvars,
               qavars, persvars, dispvars, runvars>>

beside_conf == <<attvars, concvars, savevars, snapvars, envvars, qavars,
                 persvars, dispvars, runvars>>

beside_qa == <<attvars, concvars, savevars, snapvars, envvars, confvars,
               persvars, dispvars, runvars>>

beside_pers == <<attvars, concvars, snapvars, envvars, confvars, qavars,
                 dispvars, runvars>>

beside_disp == <<attvars, concvars, savevars, snapvars, envvars, confvars,
                 qavars, persvars, runvars>>

beside_run == <<attvars, concvars, savevars, snapvars, envvars, confvars,
                qavars, persvars, dispvars>>

beside_snap == <<attvars, concvars, savevars, envvars, confvars,
               qavars, persvars, dispvars, runvars>>

\* ------------------------------------------------------------ health record
NewHealth ==
    [available |-> TRUE, failure_count |-> 0, circuit_breaker_open |-> FALSE,
     last_success |-> NoTime, rate_limited_until |-> NoTime,
     circuit_breaker_open_until |-> NoTime, last_error |-> "none"]

record_success_rec(h, t) ==
    [h EXCEPT !.available = TRUE, !.last_success = t, !.failure_count = 0,
              !.circuit_breaker_open = FALSE,
              !.circuit_breaker_open_until = NoTime,
              !.rate_limited_until = NoTime, !.last_error = "none"]

\* The switch of record_failure on error.type, after last_error and
\* failure_count++ have been applied to h.
failure_switch(h, err, t, threshold, timeout) ==
    CASE err.type = "RATE_LIMIT" ->
           [h EXCEPT !.rate_limited_until =
                         IF err.reset_time # NoTime THEN err.reset_time
                         ELSE t + RATE_LIMIT_DEFAULT,
                     !.available = FALSE]
      [] err.type \in {"CREDIT_EXHAUSTED", "QUOTA_EXCEEDED"} ->
           [h EXCEPT !.rate_limited_until = t + CREDIT_COOLDOWN,
                     !.available = FALSE]
      [] err.type = "AUTHENTICATION_ERROR" ->
           [h EXCEPT !.available = FALSE]
      [] err.type = "API_ERROR" ->
           IF MsgHasCredit(err.msg)
           THEN [h EXCEPT !.rate_limited_until = t + CREDIT_COOLDOWN,
                          !.available = FALSE]
           ELSE IF MsgHasAuth(err.msg)
           THEN [h EXCEPT !.available = FALSE]
           ELSE h
      [] err.type = "PROVIDER_ERROR" ->
           IF h.failure_count >= threshold
           THEN [h EXCEPT !.circuit_breaker_open = TRUE,
                          !.circuit_breaker_open_until = t + timeout,
                          !.available = FALSE]
           ELSE h
      [] OTHER -> h

record_failure_rec(h, err, t, threshold, timeout) ==
    failure_switch([h EXCEPT !.last_error = err.type,
                             !.failure_count = h.failure_count + 1],
                   err, t, threshold, timeout)

\* Lazy expiry of the rate-limit cooldown (is_provider_available, first if).
expire_rate_limit(h, t) ==
    IF h.rate_limited_until # NoTime /\ t > h.rate_limited_until
    THEN [h EXCEPT !.rate_limited_until = NoTime, !.available = TRUE]
    ELSE h

\* An availability query that never lets the breaker timeout lapse.
expire_breaker_never(h, t) == h

\* Lazy expiry of the circuit breaker (is_provider_available, second if).
expire_breaker(h, t) ==
    IF h.circuit_breaker_open_until # NoTime /\ t > h.circuit_breaker_open_until
    THEN [h EXCEPT !.circuit_breaker_open = FALSE,
                   !.circuit_breaker_open_until = NoTime,
                   !.failure_count = 0, !.available = TRUE]
    ELSE h

\* Math.floor(failure_count * 0.5) after a recent success.
halve_failures(h, t) ==
    IF h.last_success # NoTime /\ (t - h.last_success) < FAILURE_RESET_TIME
       /\ h.failure_count > 0
    THEN [h EXCEPT !.failure_count = h.failure_count \div 2]
    ELSE h

\* The record as is_provider_available leaves it.
is_available_rec(h, t) ==
    halve_failures(expire_breaker(expire_rate_limit(h, t), t), t)

\* The value is_provider_available returns, computed on the record it left.
is_available_ret(h, t) ==
    /\ h.available
    /\ ~h.circuit_breaker_open
    /\ (h.rate_limited_until = NoTime \/ t > h.rate_limited_until)

\* A reset that leaves the rate-limit cooldown in place.
reset_rec_keeping_cooldown(h) ==
    [h EXCEPT !.available = TRUE, !.failure_count = 0,
              !.circuit_breaker_open = FALSE,
              !.circuit_breaker_open_until = NoTime, !.last_error = "none"]

reset_rec(h) ==
    [h EXCEPT !.available = TRUE, !.failure_count = 0,
              !.circuit_breaker_open = FALSE,
              !.circuit_breaker_open_until = NoTime,
              !.rate_limited_until = NoTime, !.last_error = "none"]

\* ------------------------------------------------------------ configuration
is_provider_enabled(p) == enabled[p]

\* Array.prototype.sort with (a, b) => priority_a - priority_b: stable.
RECURSIVE insert_by_priority(_, _)
insert_by_priority(sorted, p) ==
    IF sorted = <<>> THEN <<p>>
    ELSE IF priority[p] < priority[Head(sorted)] THEN <<p>> \o sorted
    ELSE <<Head(sorted)>> \o insert_by_priority(Tail(sorted), p)

\* A sort that leaves the array in its declared order.
keep_declared_order(s) == s

RECURSIVE sort_by_priority(_)
sort_by_priority(s) ==
    IF s = <<>> THEN <<>>
    ELSE insert_by_priority(sort_by_priority(SubSeq(s, 1, Len(s) - 1)), s[Len(s)])

RECURSIVE filter_enabled(_)
filter_enabled(s) ==
    IF s = <<>> THEN <<>>
    ELSE (IF is_provider_enabled(Head(s)) THEN <<Head(s)>> ELSE <<>>)
         \o filter_enabled(Tail(s))

get_providers_by_priority(category) ==
    sort_by_priority(filter_enabled(
        IF category = "ai_response" THEN ai_providers ELSE search_providers))

\* get_available_providers: is_provider_available runs, with its lazy
\* transitions, on every provider of the configured order.
health_after_scan(hs, order, t) ==
    [p \in Providers |->
        IF p \in SeqToSet(order) THEN is_available_rec(hs[p], t) ELSE hs[p]]

\* A candidate filter that keeps providers whatever their health says.
filter_available_unchecked(hs, order, t) ==
    SelectSeq(order, LAMBDA p : is_provider_enabled(p))

RECURSIVE filter_available(_, _, _)
filter_available(hs, order, t) ==
    IF order = <<>> THEN <<>>
    ELSE (IF is_available_ret(hs[Head(order)], t) /\ is_provider_enabled(Head(order))
          THEN <<Head(order)>> ELSE <<>>)
         \o filter_available(hs, Tail(order), t)

get_available_providers(hs, category, t) ==
    filter_available(health_after_scan(hs, get_providers_by_priority(category), t),
                     get_providers_by_priority(category), t)

\* ----------------------------------------------------------- query analyzer
QueryTypes ==
    {"factual", "technical", "academic", "current_events", "code", "general",
     "local", "product", "definition", "how_to"}

\* PROVIDER_STRENGTHS; the 0..1 scores are held in tenths.
PROVIDER_STRENGTHS ==
    [p \in Providers |->
      CASE p = "tavily" ->
             [strong_for |-> {"factual", "academic", "definition", "general"},
              good_with_domains |-> {"wikipedia.org", "edu", "gov", "org"},
              recency_score |-> 8, complexity_handling |-> 9,
              operator_support |-> 7, no_ads |-> FALSE,
              privacy_focused |-> FALSE, ai_powered |-> FALSE,
              fast_response |-> FALSE]
        [] p = "kagi" ->
             [strong_for |-> {"technical", "code", "how_to", "general"},
              good_with_domains |->
                  {"github.com", "stackoverflow.com", "dev.to", "medium.com"},
              recency_score |-> 7, complexity_handling |-> 9,
              operator_support |-> 9, no_ads |-> TRUE,
              privacy_focused |-> TRUE, ai_powered |-> FALSE,
              fast_response |-> FALSE]
        [] p = "brave" ->
             [strong_for |-> {"general", "current_events", "technical"},
              good_with_domains |-> {"*"},
              recency_score |-> 8, complexity_handling |-> 7,
              operator_support |-> 9, no_ads |-> FALSE,
              privacy_focused |-> TRUE, ai_powered |-> FALSE,
              fast_response |-> FALSE]
        [] p = "perplexity" ->
             [strong_for |-> {"complex", "academic", "factual", "how_to"},
              good_with_domains |-> {"*"},
              recency_score |-> 9, complexity_handling |-> 10,
              operator_support |-> 6, no_ads |-> FALSE,
              privacy_focused |-> FALSE, ai_powered |-> TRUE,
              fast_response |-> FALSE]
        [] OTHER ->
             [strong_for |-> {"general", "factual", "definition"},
              good_with_domains |-> {"*"},
              recency_score |-> 7, complexity_handling |-> 8,
              operator_support |-> 5, no_ads |-> FALSE,
              privacy_focused |-> FALSE, ai_powered |-> TRUE,
              fast_response |-> TRUE]]

\* domain.includes(d) on the domains the model's queries mention.
DomainIncludes(domain, d) ==
    <<domain, d>> \in {<<"github.com", "github.com">>,
                       <<"en.wikipedia.org", "wikipedia.org">>,
                       <<"en.wikipedia.org", "org">>}

domain_bonus(strength, domains) ==
    \E i \in 1..Len(domains) :
        \/ "*" \in strength.good_with_domains
        \/ \E d \in strength.good_with_domains : DomainIncludes(domains[i], d)

\* The score score_providers gives one provider.
provider_score(p, c) ==
    LET st == PROVIDER_STRENGTHS[p] IN
    50
    + (IF c.query_type \in st.strong_for THEN 30
       ELSE IF c.query_type = "general" THEN 10 ELSE 0)
    + (IF c.complexity = "complex" /\ st.complexity_handling >= 9 THEN 20
       ELSE IF c.complexity = "simple" /\ st.fast_response THEN 15 ELSE 0)
    + (IF c.requires_recency /\ st.recency_score >= 8 THEN 20 ELSE 0)
    + (IF c.has_operators /\ st.operator_support >= 8 THEN 15 ELSE 0)
    + (IF domain_bonus(st, c.domains_mentioned) THEN 10 ELSE 0)
    + (IF st.ai_powered /\ c.complexity = "complex" THEN 10 ELSE 0)
    + (IF st.privacy_focused /\ c.query_type # "academic" THEN 5 ELSE 0)
    + (IF st.no_ads /\ c.query_type = "technical" THEN 10 ELSE 0)

\* a.score > b.score for scores held as fractions num / den, den > 0.
ScoreGreater(a, b) == a.num * b.den > b.num * a.den

\* Array.prototype.sort with (a, b) => b.score - a.score: descending, stable.
RECURSIVE insert_desc(_, _)
insert_desc(sorted, x) ==
    IF sorted = <<>> THEN <<x>>
    ELSE IF ScoreGreater(x, Head(sorted)) THEN <<x>> \o sorted
    ELSE <<Head(sorted)>> \o insert_desc(Tail(sorted), x)

RECURSIVE sort_desc(_)
sort_desc(s) ==
    IF s = <<>> THEN <<>>
    ELSE insert_desc(sort_desc(SubSeq(s, 1, Len(s) - 1)), s[Len(s)])

score_providers(c, available) ==
    sort_desc([i \in 1..Len(available) |->
        [provider |-> available[i], num |-> provider_score(available[i], c),
         den |-> 1]])

Min(a, b) == IF a < b THEN a ELSE b
Max(a, b) == IF a > b THEN a ELSE b

get_recommended_provider(c, available) ==
    LET scores == score_providers(c, available) IN
    IF Len(scores) = 0
    THEN [provider |-> IF Len(available) > 0 THEN available[1] ELSE "",
          confidence |-> 0]
    ELSE [provider |-> scores[1].provider,
          confidence |-> Min(100, Max(0, scores[1].num))]

\* ------------------------------------------------------ performance tracker
MAX_HISTORY_SIZE == 1000
\* 60 * 60 * 1000 ms = 2 ticks
HOUR == 2
\* max_response_time = 30000 ms = 3 units of 10 s
MAX_RESPONSE_TIME == 3

NoTypePerf == [count |-> 0, succ |-> 0, sum_rt |-> 0]

\* provider_stats.get(p) is undefined exactly when total_requests = 0 here.
\* average_response_time is sum_rt / total_requests, success_rate is
\* successful_requests / total_requests, last_hour is hour_succ / hour_n.
NoStats ==
    [total_requests |-> 0, successful_requests |-> 0, sum_rt |-> 0,
     hour_succ |-> 0, hour_n |-> 0,
     query_type_performance |-> [q \in QueryTypes |-> NoTypePerf]]

\* performance_history.push(record), then shift() when over the cap.
history_push(hist, rec) ==
    IF Len(hist) + 1 > MAX_HISTORY_SIZE THEN Tail(Append(hist, rec))
    ELSE Append(hist, rec)

\* The records update_recent_performance counts for the last hour.
hour_records(hist, p, t) ==
    {i \in 1..Len(hist) :
        hist[i].provider_used = p /\ hist[i].timestamp > t - HOUR}

update_provider_stats(st, hist, rec, t) ==
    LET tp == st.query_type_performance[rec.query_type]
        hr == hour_records(hist, rec.provider_used, t)
        total == st.total_requests + 1
        succ == st.successful_requests + (IF rec.success THEN 1 ELSE 0)
    IN  [total_requests |-> total,
         successful_requests |-> succ,
         sum_rt |-> st.sum_rt + rec.response_time_ms,
         hour_succ |-> IF hr # {} THEN Cardinality({i \in hr : hist[i].success})
                       ELSE succ,
         hour_n |-> IF hr # {} THEN Cardinality(hr) ELSE total,
         query_type_performance |->
             [st.query_type_performance EXCEPT ![rec.query_type] =
                 [count |-> tp.count + 1,
                  succ |-> tp.succ + (IF rec.success THEN 1 ELSE 0),
                  sum_rt |-> tp.sum_rt + rec.response_time_ms]]]

\* A score that starts providers without history at 0.
adaptive_score_from_zero(st, query_type) ==
    IF st.total_requests = 0 THEN [num |-> 0, den |-> 1]
    ELSE
    LET n == st.total_requests
        tp == st.query_type_performance[query_type]
        tnum == IF tp.count >= 3 THEN tp.succ ELSE st.successful_requests
        tden == IF tp.count >= 3 THEN tp.count ELSE n
        snum == Max(0, MAX_RESPONSE_TIME * n - st.sum_rt)
        sden == MAX_RESPONSE_TIME * n
    IN  [num |-> 2 * st.successful_requests * st.hour_n * tden * sden
                 + 3 * st.hour_succ * n * tden * sden
                 + 4 * tnum * n * st.hour_n * sden
                 + snum * n * st.hour_n * tden,
         den |-> n * st.hour_n * tden * sden]

\* The weighted score of get_adaptive_provider_ranking as a fraction; the
\* weights 0.2, 0.3, 0.4, 0.1 are held as 2, 3, 4, 1 and 0.5 as 5.
adaptive_score(st, query_type) ==
    IF st.total_requests = 0 THEN [num |-> 5, den |-> 1]
    ELSE
    LET n == st.total_requests
        tp == st.query_type_performance[query_type]
        tnum == IF tp.count >= 3 THEN tp.succ ELSE st.successful_requests
        tden == IF tp.count >= 3 THEN tp.count ELSE n
        snum == Max(0, MAX_RESPONSE_TIME * n - st.sum_rt)
        sden == MAX_RESPONSE_TIME * n
    IN  [num |-> 2 * st.successful_requests * st.hour_n * tden * sden
                 + 3 * st.hour_succ * n * tden * sden
                 + 4 * tnum * n * st.hour_n * sden
                 + snum * n * st.hour_n * tden,
         den |-> n * st.hour_n * tden * sden]

RECURSIVE names_of(_)
names_of(s) == IF s = <<>> THEN <<>> ELSE <<Head(s).provider>> \o names_of(Tail(s))

get_adaptive_provider_ranking(sts, c, available) ==
    names_of(sort_desc([i \in 1..Len(available) |->
        [provider |-> available[i],
         num |-> adaptive_score(sts[available[i]], c.query_type).num,
         den |-> adaptive_score(sts[available[i]], c.query_type).den]]))

\* ------------------------------------------------------------- orchestrator
CONFIDENCE_THRESHOLD == 70

RECURSIVE remove(_, _)
remove(s, x) ==
    IF s = <<>> THEN <<>>
    ELSE (IF Head(s) # x THEN <<Head(s)>> ELSE <<>>) \o remove(Tail(s), x)

\* A combination that leaves the recommended provider in the ranking.
combine_keeping_duplicate(recommendation, adaptive_ranking) ==
    IF recommendation.provider # ""
       /\ recommendation.confidence > CONFIDENCE_THRESHOLD
    THEN <<recommendation.provider>> \o adaptive_ranking
    ELSE adaptive_ranking

combine_provider_rankings(recommendation, adaptive_ranking) ==
    IF recommendation.provider # ""
       /\ recommendation.confidence > CONFIDENCE_THRESHOLD
    THEN <<recommendation.provider>>
         \o remove(adaptive_ranking, recommendation.provider)
    ELSE adaptive_ranking

\* Providers registered with the orchestrator (register_search_provider).
registered(kind) ==
    IF kind = "ai" THEN SeqToSet(ai_providers) ELSE SeqToSet(search_providers)

RECURSIVE filter_registered(_, _)
filter_registered(s, kind) ==
    IF s = <<>> THEN <<>>
    ELSE (IF Head(s) \in registered(kind) /\ is_provider_enabled(Head(s))
          THEN <<Head(s)>> ELSE <<>>)
         \o filter_registered(Tail(s), kind)

NoError == [tag |-> "none", n |-> 0, provider |-> ""]

NoResult ==
    [raised |-> FALSE, success |-> FALSE, provider_used |-> "",
     fallback_attempts |-> <<>>, error |-> NoError, result_count |-> 0,
     total_time |-> 0, query_analysis |-> FALSE]

NoCall ==
    [kind |-> "none", query_type |-> "general", available |-> <<>>,
     unavailable |-> {}, adaptive |-> <<>>,
     recommendation |-> [provider |-> "", confidence |-> 0],
     order |-> <<>>, idx |-> 1, fallback |-> TRUE, fallback_attempts |-> <<>>,
     tried |-> <<>>, elapsed |-> 0, hist0 |-> 0]

\* catch (error) of the orchestrator's try blocks: binds whatever was thrown.
caught(o) == TRUE

\* A save whose failed write escapes as an exception.
save_throws_on_failed_write(write_ok) == ~write_ok

\* Whether StateManager.immediate_save lets a failed write escape as an
\* exception: its body is one try / catch that logs.
save_throws(write_ok) == FALSE

is_provider_error(o) == o.kind = "provider_error"

\* Control reaches the catch block: attempt_search threw, or the success
\* path's bookkeeping did.
try_throws(o, write_ok) == o.kind # "results" \/ save_throws(write_ok)

\* The exception leaves the unified call: it was not caught, or the
\* bookkeeping inside the catch block threw.
call_raises(o, write_ok) ==
    try_throws(o, write_ok)
    /\ (~caught(o) \/ (is_provider_error(o) /\ save_throws(write_ok)))

\* Health after one attempt's record_success / record_failure.
health_after_attempt(hs, p, o, t, threshold, timeout) ==
    IF o.kind = "results"
    THEN [hs EXCEPT ![p] = record_success_rec(@, t)]
    ELSE IF is_provider_error(o) /\ caught(o)
    THEN [hs EXCEPT ![p] = record_failure_rec(@, o.err, t, threshold, timeout)]
    ELSE hs

\* The record the fallback loop hands to record_query_result, <<>> if none.
attempt_records(c, p, o, rt, t, write_ok) ==
    IF ~try_throws(o, write_ok)
    THEN <<[provider_used |-> p, success |-> TRUE, response_time_ms |-> rt,
            result_count |-> o.n, timestamp |-> t, error_type |-> "none",
            query_type |-> c.query_type]>>
    ELSE IF is_provider_error(o) /\ caught(o)
    THEN <<[provider_used |-> p, success |-> FALSE,
            response_time_ms |-> c.elapsed + rt, result_count |-> 0,
            timestamp |-> t, error_type |-> o.err.type,
            query_type |-> c.query_type]>>
    ELSE <<>>

success_result(c, p, o, rt, analysis) ==
    [raised |-> FALSE, success |-> TRUE, provider_used |-> p,
     fallback_attempts |-> c.fallback_attempts, error |-> NoError,
     result_count |-> o.n, total_time |-> c.elapsed + rt,
     query_analysis |-> analysis]

\* A failure result that reports no attempts.
failure_result_no_attempts(attempts, err, total) ==
    [raised |-> FALSE, success |-> FALSE, provider_used |-> "",
     fallback_attempts |-> <<>>, error |-> err, result_count |-> 0,
     total_time |-> total, query_analysis |-> FALSE]

failure_result(attempts, err, total) ==
    [raised |-> FALSE, success |-> FALSE, provider_used |-> "",
     fallback_attempts |-> attempts, error |-> err, result_count |-> 0,
     total_time |-> total, query_analysis |-> FALSE]

\* An exhaustion message that counts only the providers after the first.
all_failed_error_short(order) ==
    [tag |-> "all_failed", n |-> Len(order) - 1, provider |-> ""]

\* `All ${available_providers.length} ... providers failed`
all_failed_error(order) ==
    [tag |-> "all_failed", n |-> Len(order), provider |-> ""]

raised_result == [NoResult EXCEPT !.raised = TRUE]

\* ------------------------------------------------------------- observations
NoEvent == [op |-> "none", p |-> "none", kind |-> "none", ret |-> FALSE,
            t0 |-> NoTime, dirty |-> FALSE, due |-> NoTime, kept |-> FALSE,
            list |-> <<>>, saved |-> FALSE, arg |-> <<>>]

NewTrk ==
    [pe_run |-> [p \in Providers |-> 0],
     run_clean |-> [p \in Providers |-> TRUE],
     auth |-> [p \in Providers |-> FALSE],
     rl_t0 |-> [p \in Providers |-> NoTime],
     br_until |-> [p \in Providers |-> NoTime],
     br_kept |-> [p \in Providers |-> FALSE]]

\* A failure notification of kind err for p arriving on record h at time t.
trk_failure(k, p, h, err, t) ==
    [pe_run |-> [k.pe_run EXCEPT ![p] =
                    IF err.type # "PROVIDER_ERROR" THEN 0
                    ELSE IF @ > MaxThreshold THEN @ ELSE @ + 1],
     run_clean |-> [k.run_clean EXCEPT ![p] =
                    IF err.type = "PROVIDER_ERROR" /\ k.pe_run[p] > 0 THEN @
                    ELSE ~h.circuit_breaker_open],
     auth |-> [k.auth EXCEPT ![p] = @ \/ err.type = "AUTHENTICATION_ERROR"],
     rl_t0 |-> [k.rl_t0 EXCEPT ![p] =
                    IF err.type = "RATE_LIMIT" /\ h.available
                       /\ ~h.circuit_breaker_open
                    THEN (IF err.reset_time # NoTime THEN err.reset_time
                          ELSE t + RATE_LIMIT_DEFAULT)
                    ELSE NoTime],
     br_until |-> [k.br_until EXCEPT ![p] =
                    LET after == record_failure_rec(h, err, t,
                                     circuit_breaker_threshold,
                                     circuit_breaker_timeout)
                    IN  IF err.type = "PROVIDER_ERROR"
                           /\ after.circuit_breaker_open
                        THEN after.circuit_breaker_open_until ELSE NoTime],
     br_kept |-> [k.br_kept EXCEPT ![p] = TRUE]]

\* A success notification or a manual reset for p.
trk_clear(k, p) ==
    [pe_run |-> [k.pe_run EXCEPT ![p] = 0],
     run_clean |-> [k.run_clean EXCEPT ![p] = TRUE],
     auth |-> [k.auth EXCEPT ![p] = FALSE],
     rl_t0 |-> [k.rl_t0 EXCEPT ![p] = NoTime],
     br_until |-> k.br_until,
     br_kept |-> [k.br_kept EXCEPT ![p] = FALSE]]

\* An is_available query of p at time t: the first query at or after the
\* reset time closes the observation of that cooldown.
trk_query(k, ps, t) ==
    [k EXCEPT !.rl_t0 = [p \in Providers |->
        IF p \in ps /\ k.rl_t0[p] # NoTime /\ t >= k.rl_t0[p]
        THEN NoTime ELSE k.rl_t0[p]],
              !.br_until = [p \in Providers |->
        IF p \in ps /\ k.br_until[p] # NoTime /\ t > k.br_until[p]
        THEN NoTime ELSE k.br_until[p]]]

\* ------------------------------------------------------------------- inputs
ResetTimes(t) == {NoTime} \cup {t + d : d \in 0..MaxResetAhead}

Errors(t) ==
    [type : ErrorTypes \ {"RATE_LIMIT", "API_ERROR"}, reset_time : {NoTime},
     msg : {"other"}]
    \cup [type : {"RATE_LIMIT"}, reset_time : ResetTimes(t), msg : {"other"}]
    \cup [type : {"API_ERROR"}, reset_time : {NoTime}, msg : MessageClasses]

\* Providers that receive notifications directly in the health-manager
\* specification; records of distinct providers do not interact.
Monitored == {"kagi"}

\* ------------------------------------------------------------------ actions
\* attempt_search has not been entered: no provider.search() call, no
\* delay(), no error caught; total counts the provider.search() calls of the
\* whole unified call.
NoLog ==
    [calls |-> 0, sleeps |-> <<>>, err |-> [type |-> "none", msg |-> "other"],
     total |-> 0]

\* No unified call is being followed attempt by attempt.
AttIdle ==
    /\ a_pc = "idle"
    /\ a_order = <<>>
    /\ a_prov = 1
    /\ a_try = 0
    /\ a_pending = FALSE
    /\ a_abandoned = 0
    /\ a_failed = <<>>
    /\ a_cancelled = FALSE
    /\ a_result = "none"
    /\ a_log = NoLog
    /\ a_timers = 0

\* The calls that run concurrently in the interleaving specification.
Calls == {1, 2}

NoNote == [kind |-> "none", err |-> [type |-> "none", reset_time |-> NoTime,
                                     msg |-> "other"]]

\* No concurrent calls are being followed.
ConcIdle ==
    /\ c_pc = [c \in Calls |-> "done"]
    /\ c_note = [c \in Calls |-> NoNote]
    /\ c_read = [c \in Calls |-> NewHealth]
    /\ c_left = [c \in Calls |-> 0]
    /\ c_running = 0
    /\ c_lin = NewHealth

\* private save_throttle_ms: number = 5000, in units of 2.5 s
save_throttle_ms == 2

NoSaveEvent ==
    [op |-> "none", within |-> FALSE, wrote |-> FALSE, deferred |-> FALSE,
     cancelled |-> FALSE]

\* The state manager as constructed: last_save = 0, pending_save = null, and
\* a clock that is far more than the throttle past the epoch.
SaveIdle ==
    /\ s_now = save_throttle_ms
    /\ s_last_save = 0
    /\ s_pending = NoTime
    /\ s_timers = {}
    /\ s_last_write = NoTime
    /\ s_prev_write = NoTime
    /\ s_ev = NoSaveEvent

\* A value that is a Date, the ISO string of one, or undefined.
Undefined == [kind |-> "undefined", t |-> 0]

DateOf(t) == [kind |-> "date", t |-> t]

StringOf(t) == [kind |-> "string", t |-> t]

NoSnapshot == [provider_health |-> <<>>, performance_records |-> <<>>]

\* No snapshot is being written or read.
SnapIdle ==
    /\ sn_state = NoSnapshot
    /\ sn_file = NoSnapshot
    /\ sn_loaded = NoSnapshot

\* A long-running server: no cold-start optimisation.
EnvDefault == on_demand = FALSE

Modes == {"direct", "unified"}

\* A key a JSON object does not carry.
Absent == "absent"

NoOverrides == [mode |-> Absent, fallback_enabled |-> Absent]

\* load_state() returns null.
NoFile == [exists |-> FALSE, configuration_overrides |-> NoOverrides]

NoConfigEvent ==
    [op |-> "none", mode |-> Absent, given |-> FALSE, b |-> FALSE,
     order |-> <<>>]

\* The configuration manager as constructed with no snapshot file and no
\* mode in the environment; nothing has called it.
ConfigIdle ==
    /\ cf_mode = "direct"
    /\ cf_shared = TRUE
    /\ cf_default = [mode |-> "direct", fallback_enabled |-> fallback_enabled]
    /\ cf_file = NoFile
    /\ cf_handed = NoOverrides
    /\ cf_ev = NoConfigEvent

NoAnalysis ==
    [query |-> <<>>, available |-> <<>>,
     analysis |-> [query_type |-> "general", complexity |-> "simple",
                   requires_recency |-> FALSE, has_operators |-> FALSE,
                   domains_mentioned |-> <<>>],
     recommendation |-> [provider |-> "", confidence |-> 0]]

\* The analyze_query tool has not been called.
QaIdle == qa_out = NoAnalysis

\* The subsystems that keep a part of the snapshot: the health manager
\* (provider_health), the tracker (performance_records) and the
\* configuration manager (configuration_overrides).
Subsystems == {"provider_health", "performance_records",
               "configuration_overrides"}

\* The default state the subsystems start from when there is no file.
EmptyState == [sub \in Subsystems |-> 0]

\* Nothing has been updated, written or scheduled.
PersIdle ==
    /\ p_mem = EmptyState
    /\ p_file = EmptyState
    /\ p_timer = EmptyState

\* A unified call that has not started: no candidate list, no provider
\* called yet.
NoDispatch ==
    [pc |-> "idle", order |-> <<>>, idx |-> 1, attempt |-> 0, called |-> "",
     was_available |-> TRUE]

DispIdle == d_calls = [c \in Calls |-> NoDispatch]

\* A number held as the fraction num / den, den > 0.
Zero == [num |-> 0, den |-> 1]

\* query_type_performance[query_type] as update_provider_stats creates it.
NewTypeBlock == [count |-> 0, success_rate |-> Zero, avg_response_time |-> Zero]

\* The ProviderPerformance update_provider_stats creates for a provider it
\* has no statistics for. There is no entry for a query type before its
\* first record: count = 0 stands for it.
NewStats ==
    [total_requests |-> 0, successful_requests |-> 0, failed_requests |-> 0,
     average_response_time |-> Zero, success_rate |-> Zero,
     last_hour |-> Zero,
     query_type_performance |-> [q \in QueryTypes |-> NewTypeBlock]]

RunIdle == st_run = [p \in Providers |-> NewStats]

AuxInit ==
    /\ AttIdle /\ ConcIdle /\ SaveIdle /\ SnapIdle /\ EnvDefault /\ ConfigIdle
    /\ QaIdle /\ PersIdle /\ DispIdle /\ RunIdle

\* DEFAULT_SEARCH_CONFIG.providers[p].priority
default_priority ==
    [p \in Providers |->
        CASE p = "tavily" -> 1 [] p = "kagi" -> 2 [] p = "brave" -> 3
          [] p = "perplexity" -> 1 [] OTHER -> 2]

Init ==
    /\ now = 0
    /\ health = [p \in Providers |-> NewHealth]
    /\ circuit_breaker_threshold \in 1..MaxThreshold
    /\ circuit_breaker_timeout \in 1..MaxBreakerTimeout
    /\ fallback_enabled \in BOOLEAN
    /\ enabled = [p \in Providers |-> TRUE]
    /\ priority = default_priority
    /\ history = <<>>
    /\ stats = [p \in Providers |-> NoStats]
    /\ pc = "idle"
    /\ call = NoCall
    /\ result = NoResult
    /\ ncalls = 0
    /\ nattempts = 0
    /\ ev = NoEvent
    /\ trk = NewTrk

\* Time passes.
Tick ==
    /\ now < MaxTime
    /\ pc = "idle"
    /\ now' = now + 1
    /\ ev' = NoEvent
    /\ UNCHANGED <<health, cfgvars, auxvars, orchvars, trk>>

\* provider_health_manager.record_failure(p, err)
RecordFailure(p, err) ==
    /\ health[p].failure_count < MaxFailures
    /\ health' = [health EXCEPT ![p] =
            record_failure_rec(@, err, now, circuit_breaker_threshold,
                               circuit_breaker_timeout)]
    /\ trk' = trk_failure(trk, p, health[p], err, now)
    /\ ev' = [NoEvent EXCEPT !.op = "record_failure", !.p = p,
                              !.kind = err.type, !.saved = TRUE]
    /\ UNCHANGED <<now, cfgvars, auxvars, orchvars>>

\* provider_health_manager.record_success(p)
RecordSuccess(p) ==
    /\ health' = [health EXCEPT ![p] = record_success_rec(@, now)]
    /\ trk' = trk_clear(trk, p)
    /\ ev' = [NoEvent EXCEPT !.saved = TRUE]
    /\ UNCHANGED <<now, cfgvars, auxvars, orchvars>>

\* provider_health_manager.is_provider_available(p)
IsProviderAvailable(p) ==
    /\ health' = [health EXCEPT ![p] = is_available_rec(@, now)]
    /\ trk' = trk_query(trk, {p}, now)
    /\ ev' = [NoEvent EXCEPT !.op = "is_available", !.p = p,
                              !.ret = is_available_ret(health'[p], now),
                              !.t0 = trk.rl_t0[p],
                              !.due = trk.br_until[p],
                              !.kept = trk.br_kept[p]]
    /\ UNCHANGED <<now, cfgvars, auxvars, orchvars>>

\* provider_health_manager.get_available_providers(category)
GetAvailableProviders(category) ==
    /\ health' = health_after_scan(health, get_providers_by_priority(category), now)
    /\ trk' = trk_query(trk, SeqToSet(get_providers_by_priority(category)), now)
    /\ ev' = [NoEvent EXCEPT !.op = "get_available", !.kind = category,
                              !.list = get_available_providers(health, category,
                                                               now)]
    /\ UNCHANGED <<now, cfgvars, auxvars, orchvars>>

\* provider_health_manager.reset_provider_health(p)
ResetProviderHealth(p) ==
    /\ pc = "idle"
    /\ health' = [health EXCEPT ![p] = reset_rec(@)]
    /\ trk' = trk_clear(trk, p)
    /\ ev' = [NoEvent EXCEPT !.op = "reset", !.p = p,
                              !.dirty = ~health[p].available, !.saved = TRUE]
    /\ UNCHANGED <<now, cfgvars, auxvars, orchvars>>

\* The ProviderErrors the adapters of the orchestrator specification throw.
OrchErrors ==
    [type : {"RATE_LIMIT", "AUTHENTICATION_ERROR", "PROVIDER_ERROR"},
     reset_time : {NoTime}, msg : {"other"}]

\* What attempt_search returns or throws for one provider.
Outcomes(t) ==
    [kind : {"results"}, n : 1..MaxResults, err : {[type |-> "none",
                                                     reset_time |-> NoTime,
                                                     msg |-> "other"]}]
    \cup [kind : {"provider_error"}, n : {0}, err : OrchErrors]
    \cup [kind : {"error", "timeout"}, n : {0}, err : {[type |-> "none",
                                                         reset_time |-> NoTime,
                                                         msg |-> "other"]}]

\* Durations an attempt can take, in units of ten seconds.
ResponseTimes == {1}

\* The characteristics analyze_query can hand to the scoring: one query type
\* with a confident recommendation (technical) and one without (product).
Queries ==
    [query_type : {"technical", "product"},
     complexity : {"moderate"},
     requires_recency : {FALSE}, has_operators : {FALSE},
     domains_mentioned : {<<>>}]

\* unified_search up to its first dispatch: candidates, recommendation,
\* adaptive ranking, combined order, and the empty-order return.
UnifiedSearchStart(c) ==
    /\ pc = "idle"
    /\ ncalls < MaxCalls
    /\ LET configured == get_providers_by_priority("search")
           hs == health_after_scan(health, configured, now)
           available == filter_registered(
                            filter_available(hs, configured, now), "search")
           recommendation == get_recommended_provider(c, available)
           adaptive == get_adaptive_provider_ranking(stats, c, available)
           order == combine_provider_rankings(recommendation, adaptive)
       IN  /\ health' = hs
           /\ call' = [kind |-> "search", query_type |-> c.query_type,
                       available |-> available,
                       unavailable |->
                           {p \in registered("search") :
                               ~is_available_ret(is_available_rec(health[p], now), now)},
                       adaptive |-> adaptive,
                       recommendation |-> recommendation,
                       order |-> order, idx |-> 1,
                       fallback |-> fallback_enabled,
                       fallback_attempts |-> <<>>, tried |-> <<>>,
                       elapsed |-> 0, hist0 |-> Len(history)]
           /\ IF Len(order) = 0
              THEN /\ pc' = "done"
                   /\ result' = failure_result(<<>>,
                          [tag |-> "no_providers", n |-> 0, provider |-> ""], 0)
              ELSE /\ pc' = "running"
                   /\ result' = NoResult
    /\ ncalls' = ncalls + 1
    /\ UNCHANGED <<now, cfgvars, auxvars, history, stats, nattempts, ev, trk>>

\* One provider attempt of unified_search: the fallback-disabled branch, or
\* one iteration of the fallback loop, with the return that may follow it.
SearchAttempt(o, rt, write_ok) ==
    /\ pc = "running"
    /\ call.kind = "search"
    /\ nattempts < MaxAttempts
    /\ nattempts' = nattempts + 1
    /\ LET p == call.order[call.idx]
           recs == IF call.fallback
                   THEN attempt_records(call, p, o, rt, now, write_ok)
                   ELSE <<>>
           hist1 == IF recs = <<>> THEN history ELSE history_push(history, recs[1])
           attempts == IF try_throws(o, write_ok)
                       THEN Append(call.fallback_attempts, p)
                       ELSE call.fallback_attempts
           last == call.idx = Len(call.order)
       IN  /\ health' = health_after_attempt(health, p, o, now,
                            circuit_breaker_threshold, circuit_breaker_timeout)
           /\ history' = hist1
           /\ stats' = IF recs = <<>> THEN stats
                       ELSE [stats EXCEPT ![p] =
                                update_provider_stats(@, hist1, recs[1], now)]
           /\ call' = [call EXCEPT !.tried = Append(@, p),
                                   !.fallback_attempts = attempts,
                                   !.elapsed = @ + rt,
                                   !.idx = IF call.fallback /\ try_throws(o, write_ok)
                                              /\ ~call_raises(o, write_ok) /\ ~last
                                           THEN @ + 1 ELSE @]
           /\ IF call_raises(o, write_ok)
              THEN pc' = "done" /\ result' = raised_result
              ELSE IF ~try_throws(o, write_ok)
              THEN /\ pc' = "done"
                   /\ result' = success_result(call, p, o, rt, call.fallback)
              ELSE IF ~call.fallback
              THEN /\ pc' = "done"
                   /\ result' = failure_result(attempts,
                          [tag |-> "provider_failed", n |-> 0, provider |-> p],
                          call.elapsed + rt)
              ELSE IF last
              THEN /\ pc' = "done"
                   /\ result' = failure_result(attempts, all_failed_error(call.order),
                          call.elapsed + rt)
              ELSE pc' = "running" /\ result' = result
    /\ UNCHANGED <<now, cfgvars, auxvars, ncalls, ev, trk>>

\* unified_ai_search up to its first dispatch.
UnifiedAiSearchStart ==
    /\ pc = "idle"
    /\ ncalls < MaxCalls
    /\ LET configured == get_providers_by_priority("ai_response")
           hs == health_after_scan(health, configured, now)
           available == filter_registered(
                            filter_available(hs, configured, now), "ai")
       IN  /\ health' = hs
           /\ call' = [NoCall EXCEPT !.kind = "ai", !.available = available,
                          !.unavailable =
                              {p \in registered("ai") :
                                  ~is_available_ret(is_available_rec(health[p], now), now)},
                          !.order = available,
                          !.fallback = fallback_enabled,
                          !.hist0 = Len(history)]
           /\ IF Len(available) = 0
              THEN /\ pc' = "done"
                   /\ result' = failure_result(<<>>,
                          [tag |-> "no_providers", n |-> 0, provider |-> ""], 0)
              ELSE /\ pc' = "running"
                   /\ result' = NoResult
    /\ ncalls' = ncalls + 1
    /\ UNCHANGED <<now, cfgvars, auxvars, history, stats, nattempts, ev, trk>>

\* One iteration of unified_ai_search's loop, with the return that may follow.
AiAttempt(o, rt, write_ok) ==
    /\ pc = "running"
    /\ call.kind = "ai"
    /\ nattempts < MaxAttempts
    /\ nattempts' = nattempts + 1
    /\ LET p == call.order[call.idx]
           attempts == IF try_throws(o, write_ok)
                       THEN Append(call.fallback_attempts, p)
                       ELSE call.fallback_attempts
           last == call.idx = Len(call.order)
       IN  /\ health' = health_after_attempt(health, p, o, now,
                            circuit_breaker_threshold, circuit_breaker_timeout)
           /\ call' = [call EXCEPT !.tried = Append(@, p),
                                   !.fallback_attempts = attempts,
                                   !.elapsed = @ + rt,
                                   !.idx = IF try_throws(o, write_ok)
                                              /\ ~call_raises(o, write_ok) /\ ~last
                                           THEN @ + 1 ELSE @]
           /\ IF call_raises(o, write_ok)
              THEN pc' = "done" /\ result' = raised_result
              ELSE IF ~try_throws(o, write_ok)
              THEN /\ pc' = "done"
                   /\ result' = success_result(call, p, o, rt, FALSE)
              ELSE IF last
              THEN /\ pc' = "done"
                   /\ result' = failure_result(attempts, all_failed_error(call.order),
                          call.elapsed + rt)
              ELSE pc' = "running" /\ result' = result
    /\ UNCHANGED <<now, cfgvars, auxvars, history, stats, ncalls, ev, trk>>

\* The caller takes the UnifiedSearchResult; the call's locals are gone.
Return ==
    /\ pc = "done"
    /\ pc' = "idle"
    /\ call' = NoCall
    /\ result' = NoResult
    /\ UNCHANGED <<now, health, cfgvars, auxvars, history, stats, ncalls, nattempts,
                   ev, trk>>

Next ==
    \/ Tick
    \/ \E c \in Queries : UnifiedSearchStart(c)
    \/ \E o \in Outcomes(now) : \E rt \in ResponseTimes : \E w \in BOOLEAN :
           SearchAttempt(o, rt, w)
    \/ UnifiedAiSearchStart
    \/ \E o \in Outcomes(now) : \E rt \in ResponseTimes : \E w \in BOOLEAN :
           AiAttempt(o, rt, w)
    \/ Return

\* The orchestrator runs with OMNISEARCH_CIRCUIT_BREAKER_THRESHOLD = 1 and a
\* breaker timeout of one tick, both inside the ranges load_from_env accepts,
\* so that a breaker opens and closes again within the calls the bounds allow.
InitOrch ==
    /\ Init
    /\ circuit_breaker_threshold = 1
    /\ circuit_breaker_timeout = 1

InitSearch == InitOrch /\ AuxInit

Spec == InitSearch /\ [][Next]_vars

NextHealth ==
    \/ Tick
    \/ \E p \in Monitored : \E err \in Errors(now) : RecordFailure(p, err)
    \/ \E p \in Monitored : RecordSuccess(p)
    \/ \E p \in Monitored : IsProviderAvailable(p)
    \/ \E c \in {"search", "ai_response"} : GetAvailableProviders(c)
    \/ \E p \in Monitored : ResetProviderHealth(p)

InitHealth == Init /\ AuxInit

SpecHealth == InitHealth /\ [][NextHealth]_vars

\* The health manager under a configuration whose breaker opens on the
\* first counted failure (OMNISEARCH_CIRCUIT_BREAKER_THRESHOLD=1), so that
\* opening, lapse and reset of the breaker all fall inside the time bound.
InitRecovery == Init /\ circuit_breaker_threshold = 1 /\ AuxInit

SpecRecovery == InitRecovery /\ [][NextHealth]_vars

\* --------------------------------------------- one call, attempt by attempt
\* attempt_search: const max_retries = 2
max_retries == 2

\* The dispatch order of the call followed: the first n registered providers.
InitAttempt ==
    /\ InitOrch
    /\ a_pc = "idle"
    /\ a_order \in {SubSeq(search_providers, 1, n) : n \in 1..MaxProviders}
    /\ a_prov = 1
    /\ a_try = 0
    /\ a_pending = FALSE
    /\ a_abandoned = 0
    /\ a_failed = <<>>
    /\ a_cancelled = FALSE
    /\ a_result = "none"
    /\ a_log = NoLog
    /\ a_timers = 0
    /\ ConcIdle
    /\ SaveIdle
    /\ SnapIdle
    /\ EnvDefault
    /\ ConfigIdle
    /\ QaIdle
    /\ PersIdle
    /\ DispIdle
    /\ RunIdle

\* The unified call reaches attempt_search for its first provider, whose
\* first statement in the try block invokes provider.search(params).
CallBegins ==
    /\ a_pc = "idle"
    /\ a_pc' = "adapter"
    /\ a_pending' = TRUE
    /\ a_log' = [NoLog EXCEPT !.calls = 1, !.total = 1]
    /\ a_timers' = a_timers + 1
    /\ UNCHANGED <<corevars, beside_att, a_order, a_prov, a_try, a_abandoned, a_failed,
                   a_cancelled, a_result>>

\* What provider.search() can reject with: a ProviderError of some type and
\* message, or another Error (type "Error"); the 30 s timer rejects with
\* new Error('Search timeout').
Rejections ==
    [type : {"RATE_LIMIT", "INVALID_INPUT", "AUTHENTICATION_ERROR", "API_ERROR",
             "PROVIDER_ERROR", "Error"},
     msg : {"invalid_key", "unauthorized", "other"}]

SearchTimeout == [type |-> "Error", msg |-> "other"]

\* error.message.includes('Invalid API key')
MsgHasInvalidKey(m) == m = "invalid_key"

\* The errors the catch block of attempt_search rethrows at once.
no_retry(error) ==
    /\ error.type # "Error"
    /\ \/ error.type = "RATE_LIMIT"
       \/ error.type = "INVALID_INPUT"
       \/ MsgHasInvalidKey(error.msg)

delay_ms_without_growth(attempt) == 1000

\* Math.min(1000 * Math.pow(2, attempt), 5000)
delay_ms(attempt) ==
    IF 1000 * 2 ^ attempt < 5000 THEN 1000 * 2 ^ attempt ELSE 5000

\* attempt_search has thrown for the provider at a_prov: the caller's catch
\* block, then the next iteration up to its delay, or the final return.
provider_fails ==
    /\ a_failed' = Append(a_failed, a_order[a_prov])
    /\ a_try' = 0
    /\ IF ~fallback_enabled
       THEN a_pc' = "done" /\ a_result' = "provider_failed" /\ a_prov' = a_prov
       ELSE IF a_prov = Len(a_order)
       THEN a_pc' = "done" /\ a_result' = "all_failed" /\ a_prov' = a_prov
       ELSE a_pc' = "fallback_delay" /\ a_result' = a_result
            /\ a_prov' = a_prov + 1

\* A loop "attempt <= max_retries + 1": one more provider.search() call.
retry_once_more ==
    IF a_try <= max_retries
    THEN /\ a_pc' = "backoff"
         /\ UNCHANGED <<a_prov, a_try, a_failed, a_result>>
    ELSE provider_fails

\* The catch block of attempt_search for an error that may be retried: the
\* backoff delay while attempts are left, the throw after the loop if not.
retry_or_throw ==
    IF a_try < max_retries
    THEN /\ a_pc' = "backoff"
         /\ UNCHANGED <<a_prov, a_try, a_failed, a_result>>
    ELSE provider_fails

\* The catch block of attempt_search.
catch(error) ==
    /\ IF no_retry(error) THEN provider_fails ELSE retry_or_throw
    /\ a_log' = [a_log EXCEPT
                    !.err = error,
                    !.sleeps = IF ~no_retry(error) /\ a_try < max_retries
                               THEN Append(@, delay_ms(a_try)) ELSE @]

\* provider.search() resolves while it is awaited: results are returned.
AdapterResolves ==
    /\ a_pc = "adapter"
    /\ a_pending
    /\ a_pending' = FALSE
    /\ a_pc' = "done"
    /\ a_result' = "success"
    /\ UNCHANGED <<corevars, beside_att, a_order, a_prov, a_try, a_abandoned, a_failed,
                   a_cancelled, a_log, a_timers>>

\* provider.search() rejects with error while it is awaited.
AdapterRejects(error) ==
    /\ a_pc = "adapter"
    /\ a_pending
    /\ a_pending' = FALSE
    /\ catch(error)
    /\ UNCHANGED <<corevars, beside_att, a_order, a_abandoned,
                   a_cancelled, a_timers>>

\* The 30 s timer rejects first: Promise.race settles with 'Search timeout'
\* and the provider.search() promise is left behind, still unsettled. The
\* timers of earlier attempts, armed earlier for the same 30 s, have
\* fired before this one.
DeadlineFires ==
    /\ a_pc = "adapter"
    /\ a_pending
    /\ a_timers = 1
    /\ a_timers' = 0
    /\ a_pending' = FALSE
    /\ a_abandoned' = a_abandoned + 1
    /\ catch(SearchTimeout)
    /\ UNCHANGED <<corevars, beside_att, a_order, a_cancelled>>

\* The backoff delay of attempt_search ends: next attempt, next
\* provider.search().
BackoffEnds ==
    /\ a_pc = "backoff"
    /\ a_pc' = "adapter"
    /\ a_try' = a_try + 1
    /\ a_pending' = TRUE
    /\ a_log' = [a_log EXCEPT !.calls = @ + 1, !.total = @ + 1]
    /\ a_timers' = a_timers + 1
    /\ UNCHANGED <<corevars, beside_att, a_order, a_prov, a_abandoned, a_failed,
                   a_cancelled, a_result>>

\* delay(fallback_settings.delay_ms) ends: attempt_search for the next
\* provider.
FallbackDelayEnds ==
    /\ a_pc = "fallback_delay"
    /\ a_pc' = "adapter"
    /\ a_pending' = TRUE
    /\ a_log' = [NoLog EXCEPT !.calls = 1, !.total = a_log.total + 1]
    /\ a_timers' = a_timers + 1
    /\ UNCHANGED <<corevars, beside_att, a_order, a_prov, a_try, a_abandoned, a_failed,
                   a_cancelled, a_result>>

\* A provider.search() promise that was left behind settles; nothing is
\* awaiting it.
AbandonedSettles ==
    /\ a_abandoned > 0
    /\ a_abandoned' = a_abandoned - 1
    /\ UNCHANGED <<corevars, beside_att, a_pc, a_order, a_prov, a_try, a_pending,
                   a_failed, a_cancelled, a_result, a_log, a_timers>>

\* The caller cancels the request while the call is running. The tool
\* handler passes no signal to unified_search, which takes none.
Cancel ==
    /\ a_pc \in {"adapter", "backoff", "fallback_delay"}
    /\ ~a_cancelled
    /\ a_cancelled' = TRUE
    /\ UNCHANGED <<corevars, beside_att, a_pc, a_order, a_prov, a_try, a_pending,
                   a_abandoned, a_failed, a_result, a_log, a_timers>>

\* The 30 s timer of an attempt whose race is already settled fires: its
\* reject() has no effect. attempt_search never calls clearTimeout.
SettledDeadlineFires ==
    /\ a_timers > (IF a_pending THEN 1 ELSE 0)
    /\ a_timers' = a_timers - 1
    /\ UNCHANGED <<corevars, beside_att, a_pc, a_order, a_prov, a_try, a_pending,
                   a_abandoned, a_failed, a_cancelled, a_result, a_log>>

NextAttempt ==
    \/ CallBegins
    \/ AdapterResolves
    \/ \E error \in Rejections : AdapterRejects(error)
    \/ DeadlineFires
    \/ BackoffEnds
    \/ FallbackDelayEnds
    \/ AbandonedSettles
    \/ Cancel
    \/ SettledDeadlineFires

SpecAttempt == InitAttempt /\ [][NextAttempt]_vars

\* A provider.search() that is awaited settles or is cut off by the 30 s
\* timer; the timers behind delay() fire; the tool handler's call of
\* unified_search runs.
AwaitEnds ==
    \/ AdapterResolves
    \/ \E error \in Rejections : AdapterRejects(error)
    \/ DeadlineFires
    \/ SettledDeadlineFires

FairAttempt ==
    /\ WF_vars(CallBegins)
    /\ WF_vars(AwaitEnds)
    /\ WF_vars(BackoffEnds)
    /\ WF_vars(FallbackDelayEnds)

SpecAttemptFair == InitAttempt /\ [][NextAttempt]_vars /\ FairAttempt

\* ------------------------------------------------ interleaved unified calls
\* What a call can tell the health manager about the provider it tried, or
\* ask it (get_available_providers at the start of the call).
Notes ==
    {[kind |-> "success", err |-> NoNote.err], [kind |-> "query", err |-> NoNote.err]}
    \cup [kind : {"failure"},
          err : [type : {"PROVIDER_ERROR", "RATE_LIMIT"}, reset_time : {NoTime},
                 msg : {"other"}]]

\* record_success / record_failure / is_provider_available on record h.
apply_note(h, note, t, threshold, timeout) ==
    CASE note.kind = "success" -> record_success_rec(h, t)
      [] note.kind = "failure" ->
             record_failure_rec(h, note.err, t, threshold, timeout)
      [] OTHER -> is_available_rec(h, t)

\* A scheduler that lets any call's callback run at any point.
may_run_preemptively(c) == TRUE

\* The handlers are synchronous functions: once one has started, no other
\* callback runs until it has returned.
may_run(c) == c_running \in {0, c}

InitConcurrent ==
    /\ Init
    /\ AttIdle
    /\ SaveIdle
    /\ SnapIdle
    /\ EnvDefault
    /\ ConfigIdle
    /\ QaIdle
    /\ PersIdle
    /\ DispIdle
    /\ RunIdle
    /\ c_pc = [c \in Calls |-> "awaiting"]
    /\ c_note = [c \in Calls |-> NoNote]
    /\ c_read = [c \in Calls |-> NewHealth]
    /\ c_left = [c \in Calls |-> MaxNotes]
    /\ c_running = 0
    /\ c_lin = NewHealth

\* Call c resumes from an await and enters a health-manager method for the
\* provider both calls are trying: this.health_status.get(provider_name).
HandlerEnters(c, note) ==
    /\ c_pc[c] = "awaiting"
    /\ c_left[c] > 0
    /\ may_run(c)
    /\ c_pc' = [c_pc EXCEPT ![c] = "in_handler"]
    /\ c_note' = [c_note EXCEPT ![c] = note]
    /\ c_read' = [c_read EXCEPT ![c] = health["kagi"]]
    /\ c_running' = c
    /\ UNCHANGED <<corevars, beside_conc, c_left, c_lin>>

\* The method writes the record it computed from what it read and returns;
\* the call goes on to its next await.
HandlerReturns(c) ==
    /\ c_pc[c] = "in_handler"
    /\ may_run(c)
    /\ health' = [health EXCEPT !["kagi"] =
            apply_note(c_read[c], c_note[c], now, circuit_breaker_threshold,
                       circuit_breaker_timeout)]
    /\ c_lin' = apply_note(c_lin, c_note[c], now, circuit_breaker_threshold,
                           circuit_breaker_timeout)
    /\ c_left' = [c_left EXCEPT ![c] = @ - 1]
    /\ c_pc' = [c_pc EXCEPT ![c] = IF c_left[c] = 1 THEN "done" ELSE "awaiting"]
    /\ c_note' = [c_note EXCEPT ![c] = NoNote]
    /\ c_read' = [c_read EXCEPT ![c] = NewHealth]
    /\ c_running' = 0
    /\ UNCHANGED <<now, cfgvars, orchvars, ev, trk, beside_conc>>

\* Time passes while every call is at an await.
TimePasses == c_running = 0 /\ Tick

NextConcurrent ==
    \/ \E c \in Calls : \E note \in Notes : HandlerEnters(c, note)
    \/ \E c \in Calls : HandlerReturns(c)
    \/ TimePasses

SpecConcurrent == InitConcurrent /\ [][NextConcurrent]_vars

\* ------------------------------------------ calls dispatching side by side
\* The errors a provider rejects with here: one that attempt_search
\* rethrows at once and one that it retries.
DispatchErrors ==
    [type : {"RATE_LIMIT", "PROVIDER_ERROR"}, reset_time : {NoTime},
     msg : {"other"}]

\* Two unified_search calls on one orchestrator, each suspended at its
\* awaits while the other runs. The tracker's statistics stay as they are at
\* start-up: they decide the order of a candidate list, never its members.
InitDispatch == InitOrch /\ fallback_enabled /\ AuxInit

\* unified_search from its entry to its first await: the candidate list
\* (get_available_providers, registered and enabled), the recommendation,
\* the adaptive ranking, the combined order, the return when it is empty,
\* and otherwise, with no await in between, provider.search(params) of
\* the first provider inside attempt_search.
DispatchStarts(c, q) ==
    /\ d_calls[c].pc = "idle"
    /\ LET configured == get_providers_by_priority("search")
           hs == health_after_scan(health, configured, now)
           available == filter_registered(
                            filter_available(hs, configured, now), "search")
           order == combine_provider_rankings(
                        get_recommended_provider(q, available),
                        get_adaptive_provider_ranking(stats, q, available))
       IN  /\ health' = hs
           /\ d_calls' = [d_calls EXCEPT ![c] =
                  IF order = <<>>
                  THEN [NoDispatch EXCEPT !.pc = "done"]
                  ELSE [NoDispatch EXCEPT
                           !.order = order,
                           !.pc = "awaiting",
                           !.called = order[1],
                           !.was_available =
                               is_available_ret(hs[order[1]], now)]]
    /\ UNCHANGED <<now, cfgvars, orchvars, ev, trk, beside_disp>>

\* The backoff of attempt_search or the fallback delay of the loop ends
\* and attempt_search reaches provider.search(params) for the provider at
\* idx. Nothing between the candidate list and this call asks the health
\* manager again.
ProviderCalled(c) ==
    /\ d_calls[c].pc = "ready"
    /\ LET p == d_calls[c].order[d_calls[c].idx] IN
       d_calls' = [d_calls EXCEPT
           ![c].pc = "awaiting",
           ![c].called = p,
           ![c].was_available =
               is_available_ret(is_available_rec(health[p], now), now)]
    /\ UNCHANGED <<corevars, beside_disp>>

\* provider.search() resolves: record_success, and the call returns.
ProviderResolves(c) ==
    /\ d_calls[c].pc = "awaiting"
    /\ health' = [health EXCEPT ![d_calls[c].called] = record_success_rec(@, now)]
    /\ d_calls' = [d_calls EXCEPT ![c].pc = "done"]
    /\ UNCHANGED <<now, cfgvars, orchvars, ev, trk, beside_disp>>

\* provider.search() rejects with a ProviderError: the backoff and the next
\* attempt, or attempt_search throws and the catch block of the loop
\* records the failure and goes on to the next provider or returns.
ProviderRejects(c, error) ==
    /\ d_calls[c].pc = "awaiting"
    /\ IF ~no_retry(error) /\ d_calls[c].attempt < max_retries
       THEN /\ d_calls' = [d_calls EXCEPT ![c].pc = "ready",
                                          ![c].attempt = @ + 1]
            /\ health' = health
       ELSE /\ health' = [health EXCEPT ![d_calls[c].called] =
                   record_failure_rec(@, error, now, circuit_breaker_threshold,
                                      circuit_breaker_timeout)]
            /\ d_calls' = [d_calls EXCEPT
                   ![c].attempt = 0,
                   ![c].pc = IF fallback_enabled
                                /\ d_calls[c].idx < Len(d_calls[c].order)
                             THEN "ready" ELSE "done",
                   ![c].idx = IF fallback_enabled
                                 /\ d_calls[c].idx < Len(d_calls[c].order)
                              THEN @ + 1 ELSE @]
    /\ UNCHANGED <<now, cfgvars, orchvars, ev, trk, beside_disp>>

\* Time passes while the calls are at their awaits.
DispatchClockTicks ==
    /\ Tick

NextDispatch ==
    \/ \E c \in Calls : \E q \in Queries : DispatchStarts(c, q)
    \/ \E c \in Calls : ProviderCalled(c)
    \/ \E c \in Calls : ProviderResolves(c)
    \/ \E c \in Calls : \E error \in DispatchErrors : ProviderRejects(c, error)
    \/ DispatchClockTicks

SpecDispatch == InitDispatch /\ [][NextDispatch]_vars

\* ------------------------------------------------------------ state manager
\* clearTimeout(handle) on the armed timers; a timer that has fired or was
\* cleared is not in the set.
clear_timeout_ignored(timers, handle) == timers

clear_timeout(timers, handle) == timers \ {handle}

InitSave ==
    /\ InitOrch
    /\ AttIdle
    /\ ConcIdle
    /\ SaveIdle
    /\ SnapIdle
    /\ EnvDefault
    /\ ConfigIdle
    /\ QaIdle
    /\ PersIdle
    /\ DispIdle
    /\ RunIdle

\* immediate_save(state): the write, last_save and the pending timer, or the
\* catch block when writeFileSync throws.
immediate_save(write_ok, timers) ==
    IF write_ok
    THEN /\ s_prev_write' = s_last_write
         /\ s_last_write' = s_now
         /\ s_last_save' = s_now
         /\ s_timers' = IF s_pending # NoTime
                        THEN clear_timeout(timers, s_pending) ELSE timers
         /\ s_pending' = NoTime
    ELSE /\ s_timers' = timers
         /\ UNCHANGED <<s_prev_write, s_last_write, s_last_save, s_pending>>

\* The call arrives less than save_throttle_ms after the last write.
within_window ==
    s_last_write # NoTime /\ s_now - s_last_write < save_throttle_ms

\* save_state(state): the throttle test, the deferred timer, the write.
throttled_save(write_ok) ==
    IF s_now - s_last_save < save_throttle_ms
    THEN /\ s_timers' = (IF s_pending # NoTime
                         THEN clear_timeout(s_timers, s_pending)
                         ELSE s_timers) \cup {s_now + save_throttle_ms}
         /\ s_pending' = s_now + save_throttle_ms
         /\ s_ev' = [op |-> "save_state", within |-> within_window,
                     wrote |-> FALSE, deferred |-> TRUE,
                     cancelled |-> s_pending \in s_timers]
         /\ UNCHANGED <<s_prev_write, s_last_write, s_last_save>>
    ELSE /\ immediate_save(write_ok, s_timers)
         /\ s_ev' = [op |-> "save_state", within |-> within_window,
                     wrote |-> write_ok, deferred |-> FALSE,
                     cancelled |-> s_pending \in s_timers /\ write_ok]

\* state_manager.save_state(state)
SaveState(write_ok) ==
    /\ throttled_save(write_ok)
    /\ UNCHANGED <<corevars, beside_save, s_now>>

\* An armed timer fires at or after its due time: its callback runs
\* immediate_save(state).
timer_callback(due, write_ok) ==
    /\ due \in s_timers
    /\ s_now >= due
    /\ immediate_save(write_ok, s_timers \ {due})
    /\ s_ev' = NoSaveEvent

SaveTimerFires(due, write_ok) ==
    /\ timer_callback(due, write_ok)
    /\ UNCHANGED <<corevars, beside_save, s_now>>

SaveClockTicks ==
    /\ s_now < MaxSaveTime
    /\ s_now' = s_now + 1
    /\ s_ev' = NoSaveEvent
    /\ UNCHANGED <<corevars, beside_save, s_last_save, s_pending, s_timers,
                   s_last_write, s_prev_write>>

NextSave ==
    \/ \E write_ok \in BOOLEAN : SaveState(write_ok)
    \/ \E due \in s_timers : \E write_ok \in BOOLEAN :
           SaveTimerFires(due, write_ok)
    \/ SaveClockTicks

SpecSave == InitSave /\ [][NextSave]_vars

\* --------------------------------------------- subsystems sharing the file
\* Each subsystem's save_state(): load_state() (the file as last written,
\* or the default state), its own part replaced by what it holds in memory.
state_to_save(sub, mem) == [p_file EXCEPT ![sub] = mem[sub]]

InitPersist == InitOrch /\ AuxInit

\* A mutation of one subsystem (record_success / record_failure /
\* reset_provider_health, record_query_result, set_mode) followed by its
\* save_state(): inside the throttle window the timer that replaces the
\* pending one holds this call's state; otherwise the state is written.
SubsystemSaves(sub) ==
    /\ p_mem[sub] < MaxUpdates
    /\ p_mem' = [p_mem EXCEPT ![sub] = @ + 1]
    /\ IF s_now - s_last_save < save_throttle_ms
       THEN /\ p_timer' = state_to_save(sub, p_mem')
            /\ p_file' = p_file
       ELSE /\ p_file' = state_to_save(sub, p_mem')
            /\ p_timer' = p_timer
    /\ throttled_save(TRUE)
    /\ UNCHANGED <<corevars, beside_pers, s_now>>

\* The armed timer fires: immediate_save(state) with the state of the
\* save_state call that armed it.
PersistTimerFires(due) ==
    /\ timer_callback(due, TRUE)
    /\ p_file' = p_timer
    /\ UNCHANGED <<corevars, beside_pers, s_now, p_mem, p_timer>>

PersistClockTicks ==
    /\ SaveClockTicks

NextPersist ==
    \/ \E sub \in Subsystems : SubsystemSaves(sub)
    \/ \E due \in s_timers : PersistTimerFires(due)
    \/ PersistClockTicks

SpecPersist == InitPersist /\ [][NextPersist]_vars

\* ----------------------------------------------------------------- snapshot
\* JSON.parse(JSON.stringify(v)) of a Date-valued field: Date.prototype.toJSON
\* writes the ISO string, an undefined property is left out.
json_value(v) == IF v.kind = "date" THEN StringOf(v.t) ELSE v

\* if (x) x = new Date(x)
revive(v) == IF v.kind = "string" THEN DateOf(v.t) ELSE v

\* last_error as the adapters build it: handle_rate_limit puts the Date of
\* the reset into details.reset_time.
LastErrors ==
    {[type |-> "none", reset_time |-> Undefined]}
    \cup [type : {"RATE_LIMIT", "PROVIDER_ERROR"},
          reset_time : {Undefined} \cup {DateOf(t) : t \in 0..MaxTime}]

OptionalDates == {Undefined} \cup {DateOf(t) : t \in 0..MaxTime}

\* The ProviderHealth records record_success / record_failure leave behind.
HealthRecords ==
    {h \in [available : BOOLEAN, last_success : OptionalDates,
            rate_limited_until : OptionalDates,
            circuit_breaker_open : BOOLEAN,
            circuit_breaker_open_until : OptionalDates,
            last_error : LastErrors] :
        /\ h.circuit_breaker_open = (h.circuit_breaker_open_until # Undefined)
        /\ h.circuit_breaker_open => ~h.available
        /\ h.last_error.type = "PROVIDER_ERROR"
               => h.last_error.reset_time = Undefined
        /\ h.last_error.type = "RATE_LIMIT"
               => /\ ~h.available
                  /\ h.rate_limited_until # Undefined
                  /\ h.last_error.reset_time
                        \in {Undefined, h.rate_limited_until}
        /\ h.last_error.type = "none"
               => h.rate_limited_until = Undefined /\ ~h.circuit_breaker_open}

\* QueryPerformanceRecord, by its timestamp.
PerformanceRecords == {<<>>} \cup {<<[timestamp |-> DateOf(t)]>> : t \in 0..MaxTime}

\* JSON.stringify(limited_state) as JSON.parse reads it back.
stringify_health(h) ==
    [h EXCEPT !.last_success = json_value(@),
              !.rate_limited_until = json_value(@),
              !.circuit_breaker_open_until = json_value(@),
              !.last_error = [@ EXCEPT !.reset_time = json_value(@)]]

stringify_state(st) ==
    [provider_health |->
        [i \in 1..Len(st.provider_health) |->
            stringify_health(st.provider_health[i])],
     performance_records |->
        [i \in 1..Len(st.performance_records) |->
            [timestamp |-> json_value(st.performance_records[i].timestamp)]]]

\* The conversions load_state applies to the parsed file.
load_health(h) ==
    [h EXCEPT !.last_success = revive(@),
              !.rate_limited_until = revive(@),
              !.circuit_breaker_open_until = revive(@)]

load_state(file) ==
    [provider_health |->
        [i \in 1..Len(file.provider_health) |->
            load_health(file.provider_health[i])],
     performance_records |->
        [i \in 1..Len(file.performance_records) |->
            [timestamp |-> revive(file.performance_records[i].timestamp)]]]

InitSnapshot ==
    /\ InitOrch
    /\ AttIdle
    /\ ConcIdle
    /\ SaveIdle
    /\ sn_state \in [provider_health : {<<h>> : h \in HealthRecords},
                      performance_records : PerformanceRecords]
    /\ sn_file = NoSnapshot
    /\ sn_loaded = NoSnapshot
    /\ EnvDefault
    /\ ConfigIdle
    /\ QaIdle
    /\ PersIdle
    /\ DispIdle
    /\ RunIdle

\* immediate_save(state): writeFileSync(JSON.stringify(limited_state))
SnapshotWritten ==
    /\ sn_file = NoSnapshot
    /\ sn_file' = stringify_state(sn_state)
    /\ UNCHANGED <<corevars, beside_snap, sn_state, sn_loaded>>

\* load_state(): readFileSync, JSON.parse and the conversions to Date.
SnapshotLoaded ==
    /\ sn_file # NoSnapshot
    /\ sn_loaded = NoSnapshot
    /\ sn_loaded' = load_state(sn_file)
    /\ UNCHANGED <<corevars, beside_snap, sn_state, sn_file>>

NextSnapshot ==
    \/ SnapshotWritten
    \/ SnapshotLoaded

SpecSnapshot == InitSnapshot /\ [][NextSnapshot]_vars

\* ------------------------------------------------------ tracker history cap
\* private readonly ROLLING_WINDOW_SIZE = 100
ROLLING_WINDOW_SIZE == 100

\* OMNISEARCH_MAX_HISTORY as apply_optimizations sets it in on-demand mode.
ON_DEMAND_MAX_HISTORY == 100

\* The history cap the environment configures: the state manager's
\* max_performance_records.
max_performance_records(cold_start) ==
    IF cold_start THEN ON_DEMAND_MAX_HISTORY ELSE MAX_HISTORY_SIZE

\* The record of a successful technical query answered by kagi.
SampleRecord(t) ==
    [provider_used |-> "kagi", success |-> TRUE, response_time_ms |-> 1,
     result_count |-> 1, timestamp |-> t, error_type |-> "none",
     query_type |-> "technical"]

InitTracker ==
    /\ InitOrch
    /\ AttIdle
    /\ ConcIdle
    /\ SaveIdle
    /\ SnapIdle
    /\ on_demand \in BOOLEAN
    /\ ConfigIdle
    /\ QaIdle
    /\ PersIdle
    /\ DispIdle
    /\ RunIdle

\* performance_tracker.record_query_result(...)
RecordQueryResult ==
    /\ stats["kagi"].total_requests < MaxRecordCalls
    /\ history' = history_push(history, SampleRecord(now))
    /\ stats' = [stats EXCEPT !["kagi"] =
                    update_provider_stats(@, history', SampleRecord(now), now)]
    /\ UNCHANGED <<now, health, cfgvars, auxvars, pc, call, result, ncalls,
                   nattempts, ev, trk>>

\* The cleanup callback the tracker registers with the memory manager.
MemoryCleanup ==
    /\ Len(history) > ROLLING_WINDOW_SIZE
    /\ history' = SubSeq(history, Len(history) - ROLLING_WINDOW_SIZE + 1,
                          Len(history))
    /\ UNCHANGED <<now, health, cfgvars, auxvars, stats, pc, call, result,
                   ncalls, nattempts, ev, trk>>

NextTracker ==
    \/ RecordQueryResult
    \/ MemoryCleanup

SpecTracker == InitTracker /\ [][NextTracker]_vars

\* ------------------------------------------------- incremental statistics
MaxRecorded == 3

\* A running mean that gives every new value the weight one half.
running_average_halving(avg, n, x) ==
    [num |-> avg.num + x * avg.den, den |-> avg.den * 2]

\* (avg * (n - 1) + x) / n, n being the count after the increment.
running_average(avg, n, x) ==
    [num |-> avg.num * (n - 1) + x * avg.den, den |-> avg.den * n]

\* update_recent_performance: the share of successes among the provider's
\* records of the last hour, or success_rate when there is none.
last_hour(hist, p, t, success_rate) ==
    LET hr == hour_records(hist, p, t) IN
    IF hr # {}
    THEN [num |-> Cardinality({i \in hr : hist[i].success}),
          den |-> Cardinality(hr)]
    ELSE success_rate

\* update_provider_stats(provider, record), statement by statement: the
\* counts, the running mean of the response time, success_rate, the block
\* of the record's query type, update_recent_performance.
update_running_stats(st, hist, rec, t) ==
    LET total == st.total_requests + 1
        successful == st.successful_requests + (IF rec.success THEN 1 ELSE 0)
        rate == [num |-> successful, den |-> total]
        tp == st.query_type_performance[rec.query_type]
        count == tp.count + 1
    IN  [total_requests |-> total,
         successful_requests |-> successful,
         failed_requests |-> st.failed_requests + (IF rec.success THEN 0 ELSE 1),
         average_response_time |->
             running_average(st.average_response_time, total,
                             rec.response_time_ms),
         success_rate |-> rate,
         last_hour |-> last_hour(hist, rec.provider_used, t, rate),
         query_type_performance |->
             [st.query_type_performance EXCEPT ![rec.query_type] =
                 [count |-> count,
                  avg_response_time |->
                      running_average(tp.avg_response_time, count,
                                      rec.response_time_ms),
                  success_rate |->
                      running_average(tp.success_rate, count,
                                      IF rec.success THEN 1 ELSE 0)]]]

\* The records the attempts of this specification leave: two providers,
\* two query types, success or failure, 10 s or 40 s.
Recorded(t) ==
    [provider_used : {"kagi", "brave"}, success : BOOLEAN,
     response_time_ms : {1, 4}, result_count : {1}, timestamp : {t},
     error_type : {"none"}, query_type : {"technical", "product"}]

InitStats == InitOrch /\ fallback_enabled /\ AuxInit

\* performance_tracker.record_query_result(...): push, cap,
\* update_provider_stats.
RecordResult(rec) ==
    /\ Len(history) < MaxRecorded
    /\ history' = history_push(history, rec)
    /\ stats' = [stats EXCEPT ![rec.provider_used] =
                    update_provider_stats(@, history', rec, now)]
    /\ st_run' = [st_run EXCEPT ![rec.provider_used] =
                    update_running_stats(@, history', rec, now)]
    /\ ev' = NoEvent
    /\ UNCHANGED <<now, health, cfgvars, beside_run, pc, call, result, ncalls,
                   nattempts, trk>>

NextStats ==
    \/ \E rec \in Recorded(now) : RecordResult(rec)

SpecStats == InitStats /\ [][NextStats]_vars

\* ------------------------------------------------------- adaptive ranking
\* The attempts recorded before a ranking is asked for: a success after
\* 10 s or a failure after 40 s; kagi is tried for both query types, brave
\* for technical queries.
RankedRecords(t) ==
    {rec \in Recorded(t) :
        /\ rec.success <=> rec.response_time_ms = 1
        /\ rec.provider_used = "brave" => rec.query_type = "technical"}

\* The candidate lists handed to get_adaptive_provider_ranking.
CandidateLists == {<<"tavily", "kagi", "brave">>, <<"brave", "kagi">>}

\* performance_tracker.get_adaptive_provider_ranking(characteristics,
\* available_providers)
RankProviders(c, available) ==
    /\ ev' = [NoEvent EXCEPT
                 !.op = "adaptive_ranking", !.kind = c.query_type,
                 !.arg = available,
                 !.list = get_adaptive_provider_ranking(stats, c, available)]
    /\ UNCHANGED <<now, health, cfgvars, auxvars, orchvars, trk>>

RankingClockTicks ==
    /\ Tick

NextRanking ==
    \/ \E rec \in RankedRecords(now) : RecordResult(rec)
    \/ \E c \in Queries : \E available \in CandidateLists :
           RankProviders(c, available)
    \/ RankingClockTicks

SpecRanking == InitStats /\ [][NextRanking]_vars

\* -------------------------------------------------- configuration manager
\* export const DEFAULT_SEARCH_CONFIG, as the module declares it.
DEFAULT_SEARCH_CONFIG == [mode |-> "direct", fallback_enabled |-> TRUE]

\* OMNISEARCH_MODE and OMNISEARCH_FALLBACK_ENABLED, as the process finds them.
Environments ==
    [mode : {Absent} \cup Modes, fallback : {Absent, "true", "false"}]

json_bool(b) == IF b THEN "true" ELSE "false"

Overrides ==
    [mode : {Absent} \cup Modes, fallback_enabled : {Absent, "true", "false"}]

\* The snapshot files load_state() may find: none, or one with
\* configuration_overrides.
SnapshotFiles ==
    {NoFile} \cup [exists : {TRUE}, configuration_overrides : Overrides]

\* load_env_config(), on the fields the overrides cover.
load_env_config(config, env) ==
    [mode |-> IF env.mode \in Modes THEN env.mode ELSE config.mode,
     fallback_enabled |-> IF env.fallback # Absent
                          THEN env.fallback = "true"
                          ELSE config.fallback_enabled]

\* { ...this.config, ...state.configuration_overrides }
spread(config, overrides) ==
    [mode |-> IF overrides.mode # Absent THEN overrides.mode ELSE config.mode,
     fallback_enabled |-> IF overrides.fallback_enabled # Absent
                          THEN overrides.fallback_enabled = "true"
                          ELSE config.fallback_enabled]

\* load_persisted_overrides(): the configuration it leaves in this.config.
load_persisted_overrides(config, file) ==
    IF file.exists THEN spread(config, file.configuration_overrides)
    ELSE config

\* The overrides save_overrides() computes.
save_overrides(config, default) ==
    [mode |-> IF config.mode # default.mode THEN config.mode ELSE Absent,
     fallback_enabled |->
         IF config.fallback_enabled # default.fallback_enabled
         THEN json_bool(config.fallback_enabled) ELSE Absent]

\* get_config(): a copy of this.config.
get_config == [mode |-> cf_mode, fallback_enabled |-> fallback_enabled]

get_fallback_settings ==
    [enabled |-> fallback_enabled,
     circuit_breaker_threshold |-> circuit_breaker_threshold,
     circuit_breaker_timeout_ms |-> circuit_breaker_timeout]

\* The state after new ProviderConfigManager(): this.config starts as the
\* object DEFAULT_SEARCH_CONFIG, load_env_config() writes into it, and
\* load_persisted_overrides() replaces it by a copy only when a snapshot
\* with configuration_overrides was loaded.
InitConfig ==
    /\ InitOrch
    /\ AttIdle
    /\ ConcIdle
    /\ SaveIdle
    /\ SnapIdle
    /\ EnvDefault
    /\ QaIdle
    /\ PersIdle
    /\ DispIdle
    /\ RunIdle
    /\ \E env \in Environments : \E file \in SnapshotFiles :
          LET default == load_env_config(DEFAULT_SEARCH_CONFIG, env)
              config == load_persisted_overrides(default, file)
          IN  /\ cf_default = default
              /\ cf_mode = config.mode
              /\ fallback_enabled = config.fallback_enabled
              /\ cf_shared = ~file.exists
              /\ cf_file = file
    /\ cf_handed = NoOverrides
    /\ cf_ev = NoConfigEvent

\* set_mode(mode): this.config.mode = mode; this.save_overrides(). The
\* assignment lands in DEFAULT_SEARCH_CONFIG too when this.config is that
\* object. save_state() may or may not write the file at once.
SetMode(mode, wrote) ==
    LET default == IF cf_shared THEN [cf_default EXCEPT !.mode = mode]
                   ELSE cf_default
        overrides == save_overrides(
                        [mode |-> mode, fallback_enabled |-> fallback_enabled],
                        default)
    IN  /\ cf_mode' = mode
        /\ cf_default' = default
        /\ cf_handed' = overrides
        /\ cf_file' = IF wrote
                      THEN [exists |-> TRUE, configuration_overrides |-> overrides]
                      ELSE cf_file
        /\ cf_ev' = [op |-> "set_mode", mode |-> mode, given |-> FALSE,
                     b |-> FALSE, order |-> <<>>]
        /\ UNCHANGED <<corevars, beside_conf, cf_shared>>

\* provider_order and disabled_providers arguments of configure_providers;
\* the empty array changes nothing, as an absent argument does.
\* provider_order arguments: none, all search providers, some of them.
ProviderOrders ==
    {<<>>, <<"kagi", "tavily", "brave">>, <<"brave">>, <<"brave", "kagi">>}

DisabledProviders == {<<>>, <<"brave">>}

\* The fallback_enabled argument: not a boolean (absent), or a boolean b.
FallbackArguments ==
    {[given |-> FALSE, b |-> FALSE]} \cup [given : {TRUE}, b : BOOLEAN]

\* set_provider_order(providers): priority = index + 1 for each known name.
set_provider_order(prio, providers) ==
    [p \in Providers |->
        IF \E i \in 1..Len(providers) : providers[i] = p
        THEN CHOOSE i \in 1..Len(providers) :
                 /\ providers[i] = p
                 /\ \A j \in (i + 1)..Len(providers) : providers[j] # p
        ELSE prio[p]]

\* update_provider_config(provider, {enabled: false}) for each name given.
disable_providers(en, providers) ==
    [p \in Providers |->
        IF \E i \in 1..Len(providers) : providers[i] = p THEN FALSE ELSE en[p]]

\* The configure_providers tool handler. A boolean fallback_enabled
\* argument is assigned to the copy get_config() returns, which is dropped.
ConfigureProviders(provider_order, disabled_providers, fallback) ==
    /\ priority' = set_provider_order(priority, provider_order)
    /\ enabled' = disable_providers(enabled, disabled_providers)
    /\ cf_ev' = [op |-> "configure_providers", mode |-> Absent,
                 given |-> fallback.given, b |-> fallback.b,
                 order |-> provider_order]
    /\ UNCHANGED <<now, health, circuit_breaker_threshold,
                   circuit_breaker_timeout, fallback_enabled, orchvars, ev,
                   trk, beside_conf, cf_mode, cf_default, cf_shared, cf_file,
                   cf_handed>>

NextConfig ==
    \/ \E mode \in Modes : \E wrote \in BOOLEAN : SetMode(mode, wrote)
    \/ \E provider_order \in ProviderOrders :
         \E disabled_providers \in DisabledProviders :
           \E fallback \in FallbackArguments :
             ConfigureProviders(provider_order, disabled_providers, fallback)

SpecConfig == InitConfig /\ [][NextConfig]_vars

\* ------------------------------------------------------ query text analysis
\* A query is the sequence of its characters. toLowerCase() on the letters.
LowerOf ==
    [c \in {"A", "B", "C", "D", "E", "F", "G", "H", "I", "J", "K", "L", "M",
            "N", "O", "P", "Q", "R", "S", "T", "U", "V", "W", "X", "Y", "Z"} |->
        CASE c = "A" -> "a" [] c = "B" -> "b" [] c = "C" -> "c" [] c = "D" -> "d"
          [] c = "E" -> "e" [] c = "F" -> "f" [] c = "G" -> "g" [] c = "H" -> "h"
          [] c = "I" -> "i" [] c = "J" -> "j" [] c = "K" -> "k" [] c = "L" -> "l"
          [] c = "M" -> "m" [] c = "N" -> "n" [] c = "O" -> "o" [] c = "P" -> "p"
          [] c = "Q" -> "q" [] c = "R" -> "r" [] c = "S" -> "s" [] c = "T" -> "t"
          [] c = "U" -> "u" [] c = "V" -> "v" [] c = "W" -> "w" [] c = "X" -> "x"
          [] c = "Y" -> "y" [] OTHER -> "z"]

to_lower_case(text) ==
    [i \in 1..Len(text) |->
        IF text[i] \in DOMAIN LowerOf THEN LowerOf[text[i]] ELSE text[i]]

\* String.prototype.includes
includes(text, phrase) ==
    \E i \in 1..(Len(text) - Len(phrase) + 1) :
        \A j \in 1..Len(phrase) : text[i + j - 1] = phrase[j]

\* text.split(/\s+/).length, the white space of a query being blanks.
word_count(text) ==
    1 + Cardinality({i \in 1..Len(text) :
                        text[i] = " " /\ (i = 1 \/ text[i - 1] # " ")})

\* /\s+(w1|w2|...)\s+/i.test(text)
has_word_between_spaces(text, words) ==
    \E w \in words : includes(to_lower_case(text), <<" ">> \o w \o <<" ">>)

\* QUERY_TYPE_INDICATORS, in the order Object.entries walks it.
QUERY_TYPE_INDICATORS ==
    <<
      [type |-> "factual", indicators |-> <<
          <<"w", "h", "a", "t", " ", "i", "s">>,
          <<"w", "h", "o", " ", "i", "s">>,
          <<"w", "h", "e", "n", " ", "d", "i", "d">>,
          <<"w", "h", "e", "r", "e", " ", "i", "s">>,
          <<"f", "a", "c", "t", "s", " ", "a", "b", "o", "u", "t">>,
          <<"d", "e", "f", "i", "n", "i", "t", "i", "o", "n", " ", "o", "f">>,
          <<"m", "e", "a", "n", "i", "n", "g", " ", "o", "f">>>>],
      [type |-> "technical", indicators |-> <<
          <<"h", "o", "w", " ", "t", "o">>, <<"d", "e", "b", "u", "g">>,
          <<"e", "r", "r", "o", "r">>, <<"a", "p", "i">>,
          <<"c", "o", "d", "e">>,
          <<"p", "r", "o", "g", "r", "a", "m", "m", "i", "n", "g">>,
          <<"s", "o", "f", "t", "w", "a", "r", "e">>,
          <<"a", "l", "g", "o", "r", "i", "t", "h", "m">>,
          <<"f", "u", "n", "c", "t", "i", "o", "n">>,
          <<"m", "e", "t", "h", "o", "d">>, <<"c", "l", "a", "s", "s">>,
          <<"b", "u", "g">>, <<"f", "i", "x">>,
          <<"i", "m", "p", "l", "e", "m", "e", "n", "t">>,
          <<"c", "o", "n", "f", "i", "g", "u", "r", "e">>,
          <<"s", "e", "t", "u", "p">>, <<"i", "n", "s", "t", "a", "l", "l">>,
          <<"d", "o", "c", "k", "e", "r">>,
          <<"k", "u", "b", "e", "r", "n", "e", "t", "e", "s">>,
          <<"g", "i", "t">>>>],
      [type |-> "academic", indicators |-> <<
          <<"r", "e", "s", "e", "a", "r", "c", "h">>,
          <<"s", "t", "u", "d", "y">>, <<"p", "a", "p", "e", "r">>,
          <<"j", "o", "u", "r", "n", "a", "l">>,
          <<"c", "i", "t", "a", "t", "i", "o", "n">>,
          <<"t", "h", "e", "s", "i", "s">>,
          <<"a", "c", "a", "d", "e", "m", "i", "c">>,
          <<"s", "c", "h", "o", "l", "a", "r", "l", "y">>,
          <<"p", "e", "e", "r", " ", "r", "e", "v", "i", "e", "w">>,
          <<"p", "u", "b", "l", "i", "c", "a", "t", "i", "o", "n">>,
          <<"l", "i", "t", "e", "r", "a", "t", "u", "r", "e">>>>],
      [type |-> "current_events", indicators |-> <<
          <<"l", "a", "t", "e", "s", "t">>, <<"r", "e", "c", "e", "n", "t">>,
          <<"t", "o", "d", "a", "y">>,
          <<"y", "e", "s", "t", "e", "r", "d", "a", "y">>,
          <<"n", "e", "w", "s">>, <<"c", "u", "r", "r", "e", "n", "t">>,
          <<"2", "0", "2", "4">>, <<"2", "0", "2", "5">>,
          <<"b", "r", "e", "a", "k", "i", "n", "g">>,
          <<"u", "p", "d", "a", "t", "e">>>>],
      [type |-> "code", indicators |-> <<
          <<"p", "y", "t", "h", "o", "n">>,
          <<"j", "a", "v", "a", "s", "c", "r", "i", "p", "t">>,
          <<"t", "y", "p", "e", "s", "c", "r", "i", "p", "t">>,
          <<"r", "e", "a", "c", "t">>, <<"v", "u", "e">>,
          <<"a", "n", "g", "u", "l", "a", "r">>, <<"j", "a", "v", "a">>,
          <<"c", "+", "+">>, <<"r", "u", "s", "t">>, <<"g", "o">>,
          <<"n", "o", "d", "e", "j", "s">>, <<"n", "p", "m">>,
          <<"y", "a", "r", "n">>, <<"p", "i", "p">>,
          <<"c", "a", "r", "g", "o">>, <<"m", "a", "v", "e", "n">>>>],
      [type |-> "general", indicators |-> <<
          <<"b", "e", "s", "t">>, <<"t", "o", "p">>,
          <<"r", "e", "v", "i", "e", "w">>,
          <<"c", "o", "m", "p", "a", "r", "e">>, <<"v", "s">>,
          <<"v", "e", "r", "s", "u", "s">>,
          <<"r", "e", "c", "o", "m", "m", "e", "n", "d">>,
          <<"s", "u", "g", "g", "e", "s", "t", "i", "o", "n">>>>],
      [type |-> "local", indicators |-> <<
          <<"n", "e", "a", "r", " ", "m", "e">>,
          <<"n", "e", "a", "r", "b", "y">>, <<"l", "o", "c", "a", "l">>,
          <<"i", "n", " ", "m", "y", " ", "a", "r", "e", "a">>,
          <<"c", "l", "o", "s", "e", " ", "t", "o">>>>],
      [type |-> "product", indicators |-> <<
          <<"b", "u", "y">>, <<"p", "r", "i", "c", "e">>,
          <<"c", "o", "s", "t">>, <<"c", "h", "e", "a", "p">>,
          <<"e", "x", "p", "e", "n", "s", "i", "v", "e">>,
          <<"d", "e", "a", "l">>, <<"d", "i", "s", "c", "o", "u", "n", "t">>,
          <<"s", "h", "o", "p">>, <<"a", "m", "a", "z", "o", "n">>,
          <<"e", "b", "a", "y">>>>],
      [type |-> "definition", indicators |-> <<
          <<"d", "e", "f", "i", "n", "e">>,
          <<"w", "h", "a", "t", " ", "i", "s">>,
          <<"w", "h", "a", "t", " ", "a", "r", "e">>,
          <<"m", "e", "a", "n", "i", "n", "g">>,
          <<"d", "e", "f", "i", "n", "i", "t", "i", "o", "n">>,
          <<"e", "x", "p", "l", "a", "i", "n">>>>],
      [type |-> "how_to", indicators |-> <<
          <<"h", "o", "w", " ", "t", "o">>, <<"h", "o", "w", " ", "d", "o">>,
          <<"h", "o", "w", " ", "c", "a", "n">>,
          <<"t", "u", "t", "o", "r", "i", "a", "l">>,
          <<"g", "u", "i", "d", "e">>,
          <<"s", "t", "e", "p", " ", "b", "y", " ", "s", "t", "e", "p">>,
          <<"i", "n", "s", "t", "r", "u", "c", "t", "i", "o", "n", "s">>>>]
    >>

\* indicator.split(' ').length
phrase_weight(phrase) ==
    1 + Cardinality({j \in 1..Len(phrase) : phrase[j] = " "})

\* scores[type]: the weights of the indicators the query includes.
RECURSIVE type_score(_, _)
type_score(query, indicators) ==
    IF indicators = <<>> THEN 0
    ELSE (IF includes(query, Head(indicators))
          THEN phrase_weight(Head(indicators)) ELSE 0)
         + type_score(query, Tail(indicators))

\* The loop with "score >= max_score": a later type takes over on a tie.
RECURSIVE highest_scoring_or_equal(_, _, _, _)
highest_scoring_or_equal(query, entries, max_score, detected_type) ==
    IF entries = <<>> THEN detected_type
    ELSE LET score == type_score(query, Head(entries).indicators)
         IN  IF score >= max_score
             THEN highest_scoring_or_equal(query, Tail(entries), score,
                                           Head(entries).type)
             ELSE highest_scoring_or_equal(query, Tail(entries), max_score,
                                           detected_type)

\* The loop over Object.entries(scores): a later type replaces the detected
\* one only with a strictly higher score.
RECURSIVE highest_scoring(_, _, _, _)
highest_scoring(query, entries, max_score, detected_type) ==
    IF entries = <<>> THEN detected_type
    ELSE LET score == type_score(query, Head(entries).indicators)
         IN  IF score > max_score
             THEN highest_scoring(query, Tail(entries), score, Head(entries).type)
             ELSE highest_scoring(query, Tail(entries), max_score, detected_type)

detect_query_type(query) ==
    highest_scoring(query, QUERY_TYPE_INDICATORS, 0, "general")

\* recency_indicators of check_recency_requirement
check_recency_requirement(query) ==
    \E indicator \in {
        <<"l", "a", "t", "e", "s", "t">>, <<"r", "e", "c", "e", "n", "t">>,
        <<"t", "o", "d", "a", "y">>,
        <<"y", "e", "s", "t", "e", "r", "d", "a", "y">>,
        <<"c", "u", "r", "r", "e", "n", "t">>, <<"n", "o", "w">>,
        <<"b", "r", "e", "a", "k", "i", "n", "g">>,
        <<"u", "p", "d", "a", "t", "e">>, <<"n", "e", "w", "s">>,
        <<"2", "0", "2", "4">>, <<"2", "0", "2", "5">>,
        <<"t", "h", "i", "s", " ", "w", "e", "e", "k">>,
        <<"t", "h", "i", "s", " ", "m", "o", "n", "t", "h">>,
        <<"t", "h", "i", "s", " ", "y", "e", "a", "r">>,
        <<"r", "e", "a", "l", "-", "t", "i", "m", "e">>,
        <<"l", "i", "v", "e">>} :
        includes(query, indicator)

\* operators of has_search_operators; the test is case-sensitive.
has_search_operators(query) ==
    \E op \in {
        <<"s", "i", "t", "e", ":">>,
        <<"i", "n", "t", "i", "t", "l", "e", ":">>,
        <<"i", "n", "u", "r", "l", ":">>,
        <<"f", "i", "l", "e", "t", "y", "p", "e", ":">>,
        <<"e", "x", "t", ":">>, <<"-", "s", "i", "t", "e", ":">>,
        <<"b", "e", "f", "o", "r", "e", ":">>,
        <<"a", "f", "t", "e", "r", ":">>,
        <<"r", "e", "l", "a", "t", "e", "d", ":">>,
        <<"c", "a", "c", "h", "e", ":">>, <<"\"">>, <<"A", "N", "D">>,
        <<"O", "R">>, <<"N", "O", "T">>} :
        includes(query, op)

\* The part of complexity_score that clauses, comparisons and repeated
\* question marks contribute.
structure_score(query) ==
    (IF has_word_between_spaces(query, {<<"a", "n", "d">>, <<"o", "r">>, <<"b", "u", "t">>, <<"w", "i", "t", "h">>,
            <<"w", "i", "t", "h", "o", "u", "t">>, <<"e", "x", "c", "e", "p", "t">>})
     THEN 1 ELSE 0)
    + (IF has_word_between_spaces(query, {<<"v", "s">>, <<"v", "e", "r", "s", "u", "s">>, <<"c", "o", "m", "p", "a", "r", "e">>,
            <<"b", "e", "t", "t", "e", "r">>, <<"w", "o", "r", "s", "e">>, <<"t", "h", "a", "n">>})
       THEN 1 ELSE 0)
    + (IF Cardinality({i \in 1..Len(query) : query[i] = "?"}) >= 2
       THEN 2 ELSE 0)

complexity_score(query) ==
    (IF word_count(query) > 15 THEN 2
     ELSE IF word_count(query) > 8 THEN 1 ELSE 0)
    + structure_score(query)

assess_complexity(query) ==
    IF complexity_score(query) >= 3 THEN "complex"
    ELSE IF complexity_score(query) >= 1 THEN "moderate"
    ELSE "simple"

Letters ==
    {"a", "b", "c", "d", "e", "f", "g", "h", "i", "j", "k", "l", "m", "n", "o",
     "p", "q", "r", "s", "t", "u", "v", "w", "x", "y", "z"}

Digits == {"0", "1", "2", "3", "4", "5", "6", "7", "8", "9"}

\* The last index of the blank-separated word that starts at index i.
token_end(text, i) ==
    CHOOSE j \in i..Len(text) :
        /\ \A k \in i..j : text[k] # " "
        /\ (j = Len(text) \/ text[j + 1] = " ")

\* domain_regex on one word: labels of letters, digits and hyphens, each
\* followed by a dot, then at least two letters.
is_domain(word) ==
    LET low == to_lower_case(word)
        dots == {k \in 1..Len(low) : low[k] = "."}
    IN  /\ dots # {}
        /\ \A k \in 1..Len(low) : low[k] \in Letters \cup Digits \cup {"-", "."}
        /\ low[1] \in Letters \cup Digits
        /\ \A k \in dots : k > 1 /\ low[k - 1] # "." /\ k < Len(low)
        /\ \E k \in dots :
              /\ \A m \in (k + 1)..Len(low) : low[m] \in Letters
              /\ Len(low) - k >= 2

\* The JavaScript strings of the domains the queries of the model mention.
domain_string(word) ==
    CASE word = <<"N", "o", "d", "e", ".", "j", "s">>
           -> "Node.js"
      [] word = <<"g", "i", "t", "h", "u", "b", ".", "c", "o", "m">>
           -> "github.com"
      [] OTHER -> "other.domain"

\* extract_domains: the matches of domain_regex, in the order of the query.
RECURSIVE domains_from(_, _)
domains_from(text, i) ==
    IF i > Len(text) THEN <<>>
    ELSE IF text[i] = " " THEN domains_from(text, i + 1)
    ELSE LET j == token_end(text, i)
         IN  (IF is_domain(SubSeq(text, i, j))
              THEN <<domain_string(SubSeq(text, i, j))>> ELSE <<>>)
             \o domains_from(text, j + 1)

extract_domains(query) == domains_from(query, 1)

\* analyze_query, on the characteristics score_providers reads.
analyze_query(query) ==
    [query_type |-> detect_query_type(to_lower_case(query)),
     complexity |-> assess_complexity(query),
     requires_recency |-> check_recency_requirement(to_lower_case(query)),
     has_operators |-> has_search_operators(query),
     domains_mentioned |-> extract_domains(query)]

\* README, Usage Examples: "how to implement WebSocket authentication in Node.js"
WebSocketQuery ==
    <<"h", "o", "w", " ", "t", "o", " ", "i", "m", "p", "l", "e", "m", "e",
      "n", "t", " ", "W", "e", "b", "S", "o", "c", "k", "e", "t", " ", "a",
      "u", "t", "h", "e", "n", "t", "i", "c", "a", "t", "i", "o", "n", " ",
      "i", "n", " ", "N", "o", "d", "e", ".", "j", "s">>

\* README, Usage Examples: "latest climate change research papers 2024"
ClimateQuery ==
    <<"l", "a", "t", "e", "s", "t", " ", "c", "l", "i", "m", "a", "t", "e",
      " ", "c", "h", "a", "n", "g", "e", " ", "r", "e", "s", "e", "a", "r",
      "c", "h", " ", "p", "a", "p", "e", "r", "s", " ", "2", "0", "2", "4">>

\* README, Usage Examples: "breaking news artificial intelligence"
NewsQuery ==
    <<"b", "r", "e", "a", "k", "i", "n", "g", " ", "n", "e", "w", "s", " ",
      "a", "r", "t", "i", "f", "i", "c", "i", "a", "l", " ", "i", "n", "t",
      "e", "l", "l", "i", "g", "e", "n", "c", "e">>

\* README, Usage Examples: "sustainable energy solutions"
EnergyQuery ==
    <<"s", "u", "s", "t", "a", "i", "n", "a", "b", "l", "e", " ", "e", "n",
      "e", "r", "g", "y", " ", "s", "o", "l", "u", "t", "i", "o", "n", "s">>

\* a longer technical query that names a domain: "how to fix a docker build error with npm and yarn on github.com"
DockerQuery ==
    <<"h", "o", "w", " ", "t", "o", " ", "f", "i", "x", " ", "a", " ", "d",
      "o", "c", "k", "e", "r", " ", "b", "u", "i", "l", "d", " ", "e", "r",
      "r", "o", "r", " ", "w", "i", "t", "h", " ", "n", "p", "m", " ", "a",
      "n", "d", " ", "y", "a", "r", "n", " ", "o", "n", " ", "g", "i", "t",
      "h", "u", "b", ".", "c", "o", "m">>

\* a comparison: "compare python vs rust performance"
CompareQuery ==
    <<"c", "o", "m", "p", "a", "r", "e", " ", "p", "y", "t", "h", "o", "n",
      " ", "v", "s", " ", "r", "u", "s", "t", " ", "p", "e", "r", "f", "o",
      "r", "m", "a", "n", "c", "e">>

\* two questions: "what is the capital of France? who is its president?"
CapitalQuery ==
    <<"w", "h", "a", "t", " ", "i", "s", " ", "t", "h", "e", " ", "c", "a",
      "p", "i", "t", "a", "l", " ", "o", "f", " ", "F", "r", "a", "n", "c",
      "e", "?", " ", "w", "h", "o", " ", "i", "s", " ", "i", "t", "s", " ",
      "p", "r", "e", "s", "i", "d", "e", "n", "t", "?">>

SampleQueries ==
    {WebSocketQuery,
     ClimateQuery,
     NewsQuery,
     EnergyQuery,
     DockerQuery,
     CompareQuery,
     CapitalQuery}

\* analyze_query on the sample queries; it reads the query and nothing else.
SampleAnalyses == [query \in SampleQueries |-> analyze_query(query)]

\* The analyze_query tool handler: analyze_query, the enabled search
\* providers by priority, and the recommendation among them.
AnalyzeQueryTool(query) ==
    /\ qa_out' =
          [query |-> query,
           available |-> get_providers_by_priority("search"),
           analysis |-> SampleAnalyses[query],
           recommendation |->
               get_recommended_provider(SampleAnalyses[query],
                                        get_providers_by_priority("search"))]
    /\ UNCHANGED <<corevars, beside_qa>>

InitAnalyzer == InitOrch /\ AuxInit

NextAnalyzer ==
    \/ \E query \in SampleQueries : AnalyzeQueryTool(query)
    \/ \E provider_order \in ProviderOrders :
         \E disabled_providers \in DisabledProviders :
           \E fallback \in FallbackArguments :
             ConfigureProviders(provider_order, disabled_providers, fallback)

SpecAnalyzer == InitAnalyzer /\ [][NextAnalyzer]_vars

\* ------------------------------------------------------ available-set query
\* Health records a process can start from (load_persisted_state): a fresh
\* record, one whose breaker opened at time 0 and one rate-limited at time 0.
HealthSamples ==
    {NewHealth,
     record_failure_rec(NewHealth,
         [type |-> "PROVIDER_ERROR", reset_time |-> NoTime, msg |-> "other"],
         0, 1, 1),
     record_failure_rec(NewHealth,
         [type |-> "RATE_LIMIT", reset_time |-> NoTime, msg |-> "other"],
         0, 1, 1)}

\* OMNISEARCH_PROVIDER_ORDER values; a partial list leaves equal priorities.
SearchOrders ==
    {<<>>, <<"kagi", "tavily", "brave">>, <<"brave">>, <<"brave", "kagi">>}

\* OMNISEARCH_AI_PROVIDER_ORDER values.
AiOrders == {<<>>, <<"kagi_fastgpt", "perplexity">>}

\* OMNISEARCH_DISABLED_PROVIDERS values.
DisabledLists == {<<>>, <<"brave">>, <<"tavily", "kagi_fastgpt">>}

\* The singletons after construction with an environment that orders and
\* disables providers and a snapshot that holds health records.
InitAvailable ==
    /\ now = 0
    /\ health \in [Providers -> HealthSamples]
    /\ circuit_breaker_threshold = 1
    /\ circuit_breaker_timeout = 1
    /\ fallback_enabled = TRUE
    /\ \E d \in DisabledLists :
          enabled = disable_providers([p \in Providers |-> TRUE], d)
    /\ \E o \in SearchOrders : \E a \in AiOrders :
          priority = set_provider_order(
                         set_provider_order(default_priority, o), a)
    /\ history = <<>>
    /\ stats = [p \in Providers |-> NoStats]
    /\ pc = "idle"
    /\ call = NoCall
    /\ result = NoResult
    /\ ncalls = 0
    /\ nattempts = 0
    /\ ev = NoEvent
    /\ trk = NewTrk
    /\ AuxInit

NextAvailable ==
    \/ Tick
    \/ \E c \in {"search", "ai_response"} : GetAvailableProviders(c)

SpecAvailable == InitAvailable /\ [][NextAvailable]_vars

\* ------------------------------------------------------------------- claims

\* C1: with circuit_breaker_threshold = N, a run of N consecutive
\* PROVIDER_ERROR notifications (no success, reset or other failure in
\* between, availability queries allowed) that started on a record whose
\* breaker was closed leaves the provider breaker-open and unavailable after
\* the Nth notification, and not breaker-open after the (N-1)th.
C1_BreakerOpensExactlyAtThreshold ==
    (ev.op = "record_failure" /\ ev.kind = "PROVIDER_ERROR"
     /\ trk.run_clean[ev.p])
    => /\ (trk.pe_run[ev.p] = circuit_breaker_threshold
           => health[ev.p].circuit_breaker_open /\ ~health[ev.p].available)
       /\ (trk.pe_run[ev.p] = circuit_breaker_threshold - 1
           => ~health[ev.p].circuit_breaker_open)

\* C2: a unified_search call never dispatches to a provider for which
\* is_available returned false when the call computed its candidate set,
\* even when that provider is the first by configured priority.
C2_NeverDispatchesToUnavailable ==
    call.kind = "search"
    => \A i \in 1..Len(call.tried) : call.tried[i] \notin call.unavailable

\* A search call has dispatched while tavily, first by priority, was out.
C2_DispatchedWhileFirstPriorityOut ==
    /\ call.kind = "search"
    /\ call.tried # <<>>
    /\ "tavily" \in call.unavailable

\* C3: after a RATE_LIMIT failure with reset time t0 recorded on a healthy
\* record, and no later failure, is_available is false at every query time
\* t < t0 and true at the first query with t >= t0 (t = t0 included), which
\* also clears rate_limited_until.
C3_RateLimitCooldownEndsAtResetTime ==
    (ev.op = "is_available" /\ ev.t0 # NoTime)
    => /\ (now < ev.t0 => ~ev.ret)
       /\ (now >= ev.t0
           => ev.ret /\ health[ev.p].rate_limited_until = NoTime)

\* C4: once an AUTHENTICATION_ERROR failure has been recorded, is_available
\* is false at every later query until a reset or a success, whatever
\* cooldown or breaker timeout lapses in the meantime.
C4_AuthErrorDisablesUntilReset ==
    (ev.op = "is_available" /\ trk.auth[ev.p]) => ~ev.ret

\* C5: when fallback is enabled and every provider of a non-empty dispatch
\* order has failed, the unified call returns success = false,
\* provider_used = "", no results and the error "All N ... providers failed"
\* with N the size of the initial available set, and fallback_attempts holds
\* every provider of that set exactly once.
C5_ExhaustionResult ==
    (pc = "done" /\ call.fallback /\ call.order # <<>>
     /\ Len(call.tried) = Len(call.order) /\ ~result.success)
    => /\ ~result.raised
       /\ result.provider_used = ""
       /\ result.result_count = 0
       /\ result.error.tag = "all_failed"
       /\ result.error.n = Len(call.available)
       /\ Len(result.fallback_attempts) = Len(call.available)
       /\ \A i \in 1..Len(call.available) :
              \E j \in 1..Len(result.fallback_attempts) :
                  result.fallback_attempts[j] = call.available[i]

\* A search call with fallback has seen all three providers fail.
C5_AllThreeFailed ==
    /\ pc = "done"
    /\ call.kind = "search"
    /\ call.fallback
    /\ Len(call.order) = 3
    /\ Len(call.tried) = 3
    /\ ~result.success

\* C6: in every result, fallback_attempts is the sequence of providers that
\* were tried and failed, in the order they were tried; on success it is the
\* prefix of the dispatch order that precedes provider_used.
C6_FallbackAttemptsAreTheFailedPrefix ==
    (pc = "done" /\ ~result.raised /\ call.tried # <<>>)
    => IF result.success
       THEN /\ result.provider_used = call.tried[Len(call.tried)]
            /\ result.fallback_attempts
                   = SubSeq(call.tried, 1, Len(call.tried) - 1)
            /\ \E k \in 1..Len(call.order) :
                   /\ call.order[k] = result.provider_used
                   /\ result.fallback_attempts = SubSeq(call.order, 1, k - 1)
       ELSE result.fallback_attempts = call.tried

\* The first provider was rate-limited and the second one succeeded.
C6_SecondProviderSucceeded ==
    /\ pc = "done"
    /\ result.success
    /\ Len(call.tried) = 2
    /\ result.provider_used = call.order[2]
    /\ health[call.order[1]].rate_limited_until # NoTime

\* C7: the dispatch order of unified_search is the recommended provider R
\* followed by the adaptive ranking without R when R is non-empty and its
\* confidence is above 70, the adaptive ranking unchanged otherwise; either
\* way it is a permutation of the available set.
C7_DispatchOrder ==
    call.kind = "search"
    => /\ call.order =
              IF call.recommendation.provider # ""
                 /\ call.recommendation.confidence > 70
              THEN <<call.recommendation.provider>>
                   \o SelectSeq(call.adaptive,
                                LAMBDA p : p # call.recommendation.provider)
              ELSE call.adaptive
       /\ Len(call.order) = Len(call.available)
       /\ SeqToSet(call.order) = SeqToSet(call.available)
       /\ Cardinality(SeqToSet(call.order)) = Len(call.order)

\* A confident recommendation moved a provider ahead of the adaptive
\* ranking's first choice, with all three providers available.
C7_RecommendationOverridesRanking ==
    /\ call.kind = "search"
    /\ Len(call.available) = 3
    /\ call.recommendation.confidence > 70
    /\ call.adaptive[1] # call.recommendation.provider
    /\ call.order[1] = call.recommendation.provider

C9_NoFallbackAtMostOneDispatch ==
    (pc # "idle" /\ ~call.fallback) => Len(call.tried) <= 1

\* C10: in unified_search every provider attempt appends exactly one
\* performance record, so the records a call has added number the providers
\* it has tried, with fallback enabled or disabled and for any error kind.
C10_OneRecordPerAttempt ==
    call.kind = "search" => Len(history) - call.hist0 = Len(call.tried)

\* C11: unified_ai_search appends one performance record per provider
\* attempt, as unified_search does, so the records an AI call has added
\* number the providers it has tried.
C11_AiCallRecordsEveryAttempt ==
    call.kind = "ai" => Len(history) - call.hist0 = Len(call.tried)

\* C12: an attempt that ends at the 30 s deadline is reported to the health
\* manager like a PROVIDER_ERROR: the failure_count of the provider tried
\* goes up by one in that step.
C12_TimeoutCountsAsFailure ==
    [][\A o \in Outcomes(now) : \A rt \in ResponseTimes : \A w \in BOOLEAN :
          (o.kind = "timeout"
           /\ (SearchAttempt(o, rt, w) \/ AiAttempt(o, rt, w)))
          => health'[call.order[call.idx]].failure_count
                 = health[call.order[call.idx]].failure_count + 1]_vars

\* C13: within one unified call at most one provider.search() call is in
\* flight at any time, also after an attempt that ended because the
\* deadline timer won the race.
C13_AtMostOneAdapterCallInFlight ==
    a_abandoned + (IF a_pending THEN 1 ELSE 0) <= 1

\* C14: a call that the caller cancelled while it was in an adapter call, a
\* backoff sleep or a fallback sleep returns error "cancelled" with the
\* fallback_attempts accumulated so far and no adapter call left in flight.
C14_CancelledCallReturnsCancelled ==
    (a_pc = "done" /\ a_cancelled)
    => /\ a_result = "cancelled"
       /\ a_abandoned = 0
       /\ ~a_pending

C16_WritesAreThrottled ==
    /\ (s_prev_write # NoTime
        => s_last_write - s_prev_write >= save_throttle_ms)
    /\ Cardinality(s_timers) <= 1
    /\ (s_ev.op = "save_state" /\ s_ev.within)
       => (~s_ev.wrote /\ s_timers = {s_now + save_throttle_ms})

\* After a write, a save_state call inside the throttle window replaced the
\* deferred write an earlier call had scheduled.
C16_DeferredWriteRescheduled ==
    /\ s_last_write # NoTime
    /\ s_ev.op = "save_state"
    /\ s_ev.within
    /\ s_ev.deferred
    /\ s_ev.cancelled
    /\ s_pending > s_now

\* C17: a state written with immediate_save and read back with load_state
\* equals the original: every provider_health record, last_error with its
\* details included, and every performance record with its timestamp.
C17_SnapshotRoundTrip ==
    sn_loaded # NoSnapshot => sn_loaded = sn_state

\* C18: after any sequence of record_query_result calls the tracker's
\* history holds at most MAX_HISTORY records: 1000 by default, 100 in
\* on-demand mode.
C18_HistoryWithinCap ==
    Len(history) <= max_performance_records(on_demand)

\* C19: after set_mode(m) with m other than the built-in default 'direct',
\* the configuration_overrides handed to the state manager carry mode = m,
\* whether or not a snapshot file existed at construction.
C19_SetModeIsPersisted ==
    (cf_ev.op = "set_mode" /\ cf_ev.mode # DEFAULT_SEARCH_CONFIG.mode)
    => cf_handed.mode = cf_ev.mode

\* C20: after configure_providers is called with fallback_enabled = b, both
\* get_fallback_settings().enabled and get_config().fallback_enabled are b.
C20_ConfigureProvidersSetsFallback ==
    (cf_ev.op = "configure_providers" /\ cf_ev.given)
    => /\ get_fallback_settings.enabled = cf_ev.b
       /\ get_config.fallback_enabled = cf_ev.b

\* C21: reset_provider_health(p) clears all failure state of p (failure
\* count, breaker, both deadlines, last error) and sets available, so that
\* is_available(p) is true right afterwards, and it leaves every other
\* provider's record as it was.
C21_ResetClearsFailureState ==
    /\ [](ev.op = "reset"
          => /\ health[ev.p].failure_count = 0
             /\ ~health[ev.p].circuit_breaker_open
             /\ health[ev.p].circuit_breaker_open_until = NoTime
             /\ health[ev.p].rate_limited_until = NoTime
             /\ health[ev.p].last_error = "none"
             /\ health[ev.p].available
             /\ is_available_ret(is_available_rec(health[ev.p], now), now))
    /\ [][\A p \in Monitored :
            ResetProviderHealth(p)
            => \A q \in Providers \ {p} : health'[q] = health[q]]_vars

\* A provider that was unavailable has been reset.
C21_UnavailableProviderReset == ev.op = "reset" /\ ev.dirty

\* C22: get_available_providers(category) returns exactly the providers of
\* the category that are enabled and for which is_available holds at that
\* time, in ascending order of configured priority, each once.
C22_AvailableSetInPriorityOrder ==
    ev.op = "get_available"
    => LET of_category == IF ev.kind = "ai_response" THEN ai_providers
                          ELSE search_providers
       IN  /\ SeqToSet(ev.list) =
                  {p \in SeqToSet(of_category) :
                      /\ enabled[p]
                      /\ is_available_ret(is_available_rec(health[p], now), now)}
           /\ Cardinality(SeqToSet(ev.list)) = Len(ev.list)
           /\ \A i \in 1..Len(ev.list) : \A j \in i..Len(ev.list) :
                  priority[ev.list[i]] <= priority[ev.list[j]]

\* The query returned kagi ahead of brave while tavily, enabled, was left
\* out for its health.
C22_ReorderedAndFiltered ==
    /\ ev.op = "get_available"
    /\ ev.kind = "search"
    /\ ev.list = <<"kagi", "brave">>
    /\ enabled["tavily"]

\* C23: for "how to implement WebSocket authentication in Node.js" with the
\* candidates tavily, kagi and brave, analyze_query yields query_type
\* technical and complexity moderate, and the recommendation is kagi with
\* confidence at least 95.
C23_WebSocketQueryRecommendsKagi ==
    (qa_out.query = WebSocketQuery
     /\ SeqToSet(qa_out.available) = {"tavily", "kagi", "brave"})
    => /\ qa_out.analysis.query_type = "technical"
       /\ qa_out.analysis.complexity = "moderate"
       /\ qa_out.recommendation.provider = "kagi"
       /\ qa_out.recommendation.confidence >= 95

\* C24: whenever no deferred save is pending, the snapshot file holds the
\* health manager's records and the tracker's history as they are in
\* memory: a save scheduled by one subsystem never drops or overwrites
\* with stale data an update of another.
C24_FileCatchesUpWithMemory ==
    s_timers = {}
    => /\ p_file["provider_health"] = p_mem["provider_health"]
       /\ p_file["performance_records"] = p_mem["performance_records"]

\* C25: when the first attempt on a provider fails with a RATE_LIMIT, an
\* INVALID_INPUT or an AUTHENTICATION_ERROR error (whatever its message),
\* attempt_search does not retry: no backoff sleep starts, the provider
\* has been called once, and the error reaches the fallback loop.
C25_NoRetryOnRateLimitInputOrAuth ==
    [][\A error \in Rejections :
          (/\ error.type \in {"RATE_LIMIT", "INVALID_INPUT", "AUTHENTICATION_ERROR"}
           /\ a_log.calls = 1
           /\ AdapterRejects(error))
          => /\ a_pc' # "backoff"
             /\ a_log'.calls = 1
             /\ a_log'.sleeps = <<>>
             /\ a_failed' = Append(a_failed, a_order[a_prov])]_vars

\* C26: attempt_search calls the provider at most max_retries + 1 = 3
\* times; the sleeps between consecutive attempts are 1000 ms, then
\* 2000 ms, one before each further call and none after the last failed
\* attempt; the error it throws is the last one caught; after the first
\* successful result nothing more is called.
C26_ThreeCallsWithGrowingBackoff ==
    /\ [](/\ a_log.calls <= max_retries + 1
          /\ a_log.sleeps = SubSeq(<<1000, 2000>>, 1, Len(a_log.sleeps))
          /\ Len(a_log.sleeps)
                 = IF a_pc = "backoff" THEN a_log.calls
                   ELSE IF a_log.calls = 0 THEN 0 ELSE a_log.calls - 1
          /\ (a_result = "success" => a_pc = "done" /\ ~a_pending))
    /\ [][/\ a_result = "success" => a_log' = a_log
          /\ \A error \in Rejections :
                 (AdapterRejects(error) /\ a_pc' # "backoff")
                 => a_log'.err = error /\ a_log'.sleeps = a_log.sleeps]_vars

\* The third attempt on a provider has failed with an error that may be
\* retried, after sleeps of 1000 ms and 2000 ms.
C26_ThirdAttemptFailed ==
    /\ a_log.calls = 3
    /\ a_log.sleeps = <<1000, 2000>>
    /\ a_log.err.type = "PROVIDER_ERROR"
    /\ a_pc \in {"fallback_delay", "done"}
    /\ a_result # "success"

\* C27: in every interleaving of concurrent unified calls, a provider is
\* available at the moment a call invokes its search: a call that had
\* already computed its candidate list does not dispatch to a provider
\* that another call has made breaker-open or rate-limited since.
C27_DispatchOnlyToAvailable ==
    \A c \in Calls : d_calls[c].pc = "awaiting" => d_calls[c].was_available

\* C28: an API_ERROR failure whose message matches none of the heuristics
\* counts toward the breaker like a PROVIDER_ERROR: once failure_count has
\* reached circuit_breaker_threshold through such a failure, the provider
\* is breaker-open and unavailable.
C28_UnclassifiedApiErrorOpensBreaker ==
    [][\A p \in Monitored : \A err \in Errors(now) :
          (/\ err.type = "API_ERROR"
           /\ ~MsgHasCredit(err.msg)
           /\ ~MsgHasAuth(err.msg)
           /\ RecordFailure(p, err)
           /\ health'[p].failure_count >= circuit_breaker_threshold)
          => /\ health'[p].circuit_breaker_open
             /\ ~health'[p].available]_vars

\* C29: record_failure with kind RATE_LIMIT, CREDIT_EXHAUSTED,
\* QUOTA_EXCEEDED or AUTHENTICATION_ERROR changes only last_error,
\* rate_limited_until and available: failure_count and both
\* circuit-breaker fields stay as they were.
C29_CooldownFailuresLeaveCountAndBreaker ==
    [][\A p \in Monitored : \A err \in Errors(now) :
          (/\ err.type \in {"RATE_LIMIT", "CREDIT_EXHAUSTED", "QUOTA_EXCEEDED",
                            "AUTHENTICATION_ERROR"}
           /\ RecordFailure(p, err))
          => /\ health'[p].failure_count = health[p].failure_count
             /\ health'[p].circuit_breaker_open = health[p].circuit_breaker_open
             /\ health'[p].circuit_breaker_open_until
                    = health[p].circuit_breaker_open_until
             /\ health'[p].last_success = health[p].last_success]_vars

\* C30 as stated: once a PROVIDER_ERROR failure has left the breaker open
\* until t + T and no failure has been recorded since, every availability
\* query up to t + T returns false, and the first query after t + T
\* returns true with the breaker closed, circuit_breaker_open_until cleared
\* and failure_count = 0, unless a rate-limit cooldown is still running.
C30_BreakerHoldsUntilTimeout ==
    (ev.op = "is_available" /\ ev.due # NoTime)
    => /\ now <= ev.due => ~ev.ret
       /\ (now > ev.due /\ health[ev.p].rate_limited_until = NoTime)
          => /\ ev.ret
             /\ ~health[ev.p].circuit_breaker_open
             /\ health[ev.p].circuit_breaker_open_until = NoTime
             /\ health[ev.p].failure_count = 0

\* C30, amended: the same, provided that neither a failure nor a success
\* nor a manual reset has been recorded for the provider since the breaker
\* opened.
C30_BreakerHoldsUntilTimeoutUnlessCleared ==
    (ev.op = "is_available" /\ ev.due # NoTime /\ ev.kept)
    => /\ now <= ev.due => ~ev.ret
       /\ (now > ev.due /\ health[ev.p].rate_limited_until = NoTime)
          => /\ ev.ret
             /\ ~health[ev.p].circuit_breaker_open
             /\ health[ev.p].circuit_breaker_open_until = NoTime
             /\ health[ev.p].failure_count = 0

\* The first query after the timeout of an undisturbed open breaker.
C30_FirstQueryAfterTimeout ==
    /\ ev.op = "is_available"
    /\ ev.due # NoTime
    /\ ev.kept
    /\ now > ev.due
    /\ ev.ret

\* C31: every operation that changes a provider health record schedules a
\* snapshot save (this.save_state()): record_success, record_failure,
\* reset_provider_health, and the lazy transitions of
\* is_provider_available as well.
C31_EveryHealthMutationSchedulesSave ==
    [][health' # health => ev'.saved]_vars

\* C32: the 30 s deadline timer of an attempt is released as soon as the
\* race is decided: the only timer that can be armed is the one of the
\* attempt whose adapter call is being awaited, and none is armed after
\* the unified call has returned.
C32_DeadlineTimerReleased ==
    a_timers <= (IF a_pending THEN 1 ELSE 0)

\* C33: after configure_providers was called with a list L of search
\* providers (L may name only some of them), get_providers_by_priority
\* returns the enabled providers of L, in the order of L, ahead of every
\* provider L does not name.
C33_GivenOrderComesFirst ==
    (cf_ev.op = "configure_providers" /\ cf_ev.order # <<>>)
    => LET named == filter_enabled(cf_ev.order)
           listed == get_providers_by_priority("search")
       IN  /\ Len(listed) >= Len(named)
           /\ SubSeq(listed, 1, Len(named)) = named

\* The records of history for provider p and query type q.
records_of(p, q) ==
    {i \in 1..Len(history) :
        history[i].provider_used = p /\ history[i].query_type = q}

RECURSIVE sum_response_time(_)
sum_response_time(is) ==
    IF is = {} THEN 0
    ELSE LET i == CHOOSE j \in is : TRUE
         IN  history[i].response_time_ms + sum_response_time(is \ {i})

\* C35: after any sequence of record_query_result calls, for every
\* provider and query type the incrementally maintained block equals the
\* recomputation over all records of that provider and type: count is
\* their number, success_rate * count the number of successful ones,
\* avg_response_time * count the sum of their response times; and
\* total_requests = successful_requests + failed_requests, success_rate =
\* successful_requests / total_requests.
C35_RunningBlocksEqualRecomputation ==
    \A p \in Providers :
        /\ st_run[p].total_requests
               = st_run[p].successful_requests + st_run[p].failed_requests
        /\ st_run[p].total_requests
               = Cardinality({i \in 1..Len(history) : history[i].provider_used = p})
        /\ st_run[p].success_rate.num * st_run[p].total_requests
               = st_run[p].successful_requests * st_run[p].success_rate.den
        /\ \A q \in QueryTypes :
              LET block == st_run[p].query_type_performance[q]
                  recs == records_of(p, q)
              IN  /\ block.count = Cardinality(recs)
                  /\ block.success_rate.num * block.count
                         = Cardinality({i \in recs : history[i].success})
                               * block.success_rate.den
                  /\ block.avg_response_time.num * block.count
                         = sum_response_time(recs) * block.avg_response_time.den

\* Three records of one provider and type, successes and a failure among
\* them, with different response times.
C35_MixedBlockOfThree ==
    LET recs == records_of("kagi", "technical") IN
    /\ Cardinality(recs) = 3
    /\ \E i, j \in recs :
          /\ history[i].success /\ ~history[j].success
          /\ history[i].response_time_ms # history[j].response_time_ms

\* Ten times the score the claim gives provider p for query type q, as a
\* fraction, from the statistics the running updates maintain: 5 without
\* statistics, else 2 * success_rate + 3 * last_hour + 4 * (the type's
\* success_rate if its count >= 3, else success_rate)
\* + max(0, 1 - average_response_time / 30000).
stated_score(p, q) ==
    LET st == st_run[p]
        tp == st.query_type_performance[q]
        tr == IF tp.count >= 3 THEN tp.success_rate ELSE st.success_rate
        sr == st.success_rate
        lh == st.last_hour
        avg == st.average_response_time
        speed == IF avg.num < MAX_RESPONSE_TIME * avg.den
                 THEN [num |-> MAX_RESPONSE_TIME * avg.den - avg.num,
                       den |-> MAX_RESPONSE_TIME * avg.den]
                 ELSE Zero
    IN  IF st.total_requests = 0 THEN [num |-> 5, den |-> 1]
        ELSE [num |-> 2 * sr.num * lh.den * tr.den * speed.den
                      + 3 * lh.num * sr.den * tr.den * speed.den
                      + 4 * tr.num * sr.den * lh.den * speed.den
                      + speed.num * sr.den * lh.den * tr.den,
              den |-> sr.den * lh.den * tr.den * speed.den]

\* The place of provider p in list s.
index_of(s, p) == CHOOSE i \in 1..Len(s) : s[i] = p

contains_phrase(text, phrase) ==
    \E i \in 0..(Len(text) - Len(phrase)) :
        SubSeq(text, i + 1, i + Len(phrase)) = phrase

\* The number of tokens of a phrase: the positions where a word starts.
token_count(phrase) ==
    Cardinality({j \in 1..Len(phrase) :
                    /\ phrase[j] # " "
                    /\ (j = 1 \/ phrase[j - 1] = " ")})

\* The sum of the token counts of the first n indicator phrases of the
\* k-th declared type that the text contains.
RECURSIVE indicator_total(_, _, _)
indicator_total(text, k, n) ==
    IF n = 0 THEN 0
    ELSE LET phrase == QUERY_TYPE_INDICATORS[k].indicators[n]
         IN  indicator_total(text, k, n - 1)
             + (IF contains_phrase(text, phrase) THEN token_count(phrase) ELSE 0)

declared_total(text, k) ==
    indicator_total(text, k, Len(QUERY_TYPE_INDICATORS[k].indicators))

\* The total of every declared type, by its position in the declaration.
declared_totals(text) ==
    [k \in DOMAIN QUERY_TYPE_INDICATORS |-> declared_total(text, k)]

\* The declared types whose total no other type exceeds.
top_types(total) ==
    {k \in DOMAIN total : \A m \in DOMAIN total : total[m] <= total[k]}

\* C36: the query type reported by analyze_query is the type whose indicator
\* phrases contained in the lowercased query have the highest sum of token
\* counts, the first declared one among equals, and general when the query
\* contains no indicator phrase at all.
C36_HighestTotalFirstDeclaredWins ==
    qa_out # NoAnalysis
    => LET total == declared_totals(to_lower_case(qa_out.query))
           top == top_types(total)
           first == CHOOSE k \in top : \A m \in top : k <= m
       IN  qa_out.analysis.query_type =
               (IF total[first] = 0 THEN "general"
                ELSE QUERY_TYPE_INDICATORS[first].type)

\* A query was classified on which two declared types share the highest,
\* positive total.
C36_TieBetweenTwoTypes ==
    /\ qa_out # NoAnalysis
    /\ LET total == declared_totals(to_lower_case(qa_out.query))
           top == top_types(total)
       IN  /\ Cardinality(top) = 2
           /\ \A k \in top : total[k] > 0


\* --------------------------------------------- response time of an attempt
\* C37: the response_time_ms of the performance record an attempt stores is
\* the duration of that attempt alone, from its dispatch to its outcome,
\* whether the attempt succeeded or failed.
C37_RecordedTimeIsTheAttemptsOwn ==
    [][(pc = "running" /\ Len(history') = Len(history) + 1)
       => history'[Len(history')].response_time_ms
              = call'.elapsed - call.elapsed]_vars


\* ------------------------------------------------- shape of a unified result
\* C38: a result returned by unified_search / unified_ai_search has
\* success = true exactly when provider_used is non-empty; a successful one
\* carries no error and its provider_used is not among fallback_attempts; a
\* failed one has no results and carries an error; fallback_attempts names no
\* provider twice; and query_analysis is present only on a successful one.
C38_ResultFieldsAgree ==
    (pc = "done" /\ ~result.raised)
    => LET attempts == result.fallback_attempts
       IN  /\ result.success <=> result.provider_used # ""
           /\ result.success
                 => /\ result.error = NoError
                    /\ \A i \in DOMAIN attempts :
                           attempts[i] # result.provider_used
           /\ ~result.success
                 => /\ result.result_count = 0
                    /\ result.error # NoError
           /\ \A i, j \in DOMAIN attempts :
                  i # j => attempts[i] # attempts[j]
           /\ result.query_analysis => result.success

\* unified_search returned the results of a provider after another one had
\* failed.
C38_SuccessAfterFallback ==
    /\ pc = "done"
    /\ call.kind = "search"
    /\ result.success
    /\ result.query_analysis
    /\ result.fallback_attempts # <<>>


\* ------------------------------------------------------------- termination
\* C39: a unified call makes at most 3 provider.search() calls for each
\* provider of its dispatch order, tries the providers in that order, each
\* at most once, and, every awaited call settling or being cut off by the
\* deadline, returns a result.
C39_CallTerminatesWithinBound ==
    /\ [](/\ a_log.total <= (max_retries + 1) * Len(a_order)
          /\ a_failed = SubSeq(a_order, 1, Len(a_failed))
          /\ \A i, j \in DOMAIN a_order : i # j => a_order[i] # a_order[j]
          /\ a_log.calls <= max_retries + 1
          /\ a_pc \in {"adapter", "backoff"} => a_prov = Len(a_failed) + 1)
    /\ <>[](a_pc = "done" /\ a_result # "none")

\* A call over two providers or more returned after every provider had
\* taken its three calls.
C39_EveryProviderTookThreeCalls ==
    /\ a_pc = "done"
    /\ a_result = "all_failed"
    /\ Len(a_order) >= 2
    /\ a_log.total = (max_retries + 1) * Len(a_order)


\* ------------------------------------------------- the deferred-save timer
\* C40: the state manager never has more than one deferred-save timer
\* armed, and the armed one is the one pending_save holds; a save_state call
\* that defers leaves exactly its own timer armed; and a write that
\* completes, from save_state or from the timer's callback, leaves
\* pending_save = null and no timer armed.
C40_OneDeferredSaveTimer ==
    /\ [](/\ Cardinality(s_timers) <= 1
          /\ s_timers \subseteq {s_pending})
    /\ [][/\ ((SaveState(TRUE) \/ SaveState(FALSE)) /\ s_ev'.deferred)
               => (s_pending' = s_now + save_throttle_ms
                   /\ s_timers' = {s_pending'})
          /\ (SaveState(TRUE) /\ s_ev'.wrote)
               => (s_pending' = NoTime /\ s_timers' = {})
          /\ (\E due \in s_timers : SaveTimerFires(due, TRUE))
               => (s_pending' = NoTime /\ s_timers' = {})]_vars

\* The callback of a deferred save has just completed its write, after an
\* earlier write.
C40_DeferredWriteCompleted ==
    /\ s_ev = NoSaveEvent
    /\ s_last_write = s_now
    /\ s_prev_write # NoTime
    /\ s_prev_write < s_now
    /\ s_pending = NoTime

====
